---- MODULE Spec2Model ----
(***************************************************************************)
(* Model of the kubos communications bridge (libs/comms-service):          *)
(*   - read_thread and the Request / DownStream handler threads it spawns, *)
(*   - downlink_endpoint: the UDP receiver thread, the downlink loop, the  *)
(*     two mpsc channels between them and the AtomicU32 credit counter.    *)
(* Every access to state shared between threads (a mutex, an atomic, a     *)
(* channel) is one step; a thread's local work and its calls to the        *)
(* outside (sockets, the gateway write function, the codec) are folded     *)
(* into the step of the shared access that follows them.                   *)
(***************************************************************************)
EXTENDS Integers, Sequences, FiniteSets, Bags, TLC

\* ---------------------------------------------------------------- bounds
\* datagrams a producer sends to the downlink port in one run
MaxDatagrams == 4
\* socket.recv_from errors injected on the downlink port in one run
MaxRecvErrors == 1
\* datagrams of the long run that fills the pipeline (SpecDownlinkFull)
FullDatagrams == 34
\* reads of the gateway by the read loop in one run
MaxFrames == 2
\* control.max_num_handlers of the modelled configuration
MaxNumHandlers == 1
\* datagrams a local service sends back to one DownStream handler
MaxStream == 2

\* longest source file of the staging area
MaxFileLen == 3
\* transfer_chunk_size of the modelled transfers
ChunkSize == 2
\* number of digests calc_file_hash can yield
HashSpace == 7
\* task list files in one mode directory
MaxLists == 2
\* store_meta calls on one hash directory in one run
MaxStoreCalls == 2
\* check_start_task_list and check_stop_task_list calls in one run
MaxListCalls == 3
\* validate_file: every set of present chunks is tried up to this num_chunks
MaxSmallChunks == 5
\* validate_file: long listings have up to 2 * max_entries + CapSlack chunks
CapSlack == 2
MaxParts == 3
TicksPerSecond == 2
MaxTasks == 2
MaxFires == 2

\* ------------------------------------------------------ program constants
\* `let mut max_entries = 186;` in validate_file
max_entries == 186
\* `let max = 32;` in downlink_endpoint
max == 32
\* the port of the modelled DownlinkPort
port == 13011

Peers == {"appA", "appB"}

\* what the gateway can deliver: command ids, payload classes, local ports
CommandIds == {7, 9}
Classes == {"Unknown", "Udp", "Request", "DownStream"}
Ports == {8000}
Payloads == {"ping"}
Responses == {"pong"}
Frames == [command_id : CommandIds, class : Classes, dest : Ports, payload : Payloads]

Min(a, b) == IF a < b THEN a ELSE b

VARIABLES
    \* --- telemetry shared by all threads (Arc<Mutex<CommsTelemetry>>)
    telem,          \* [up, up_failed, down, down_failed : Nat]
    errors,         \* error kind -> number of log_error calls with it
    \* --- read_thread and its handler threads
    rd_pc,          \* position of the read loop
    packet,         \* the validated packet being dispatched
    n_read,         \* reads of the gateway so far (bounds the run)
    num_handlers,   \* Arc<Mutex<u16>> handler counter
    handlers,       \* the handler threads spawned so far, in spawn order
    forwarded,      \* datagrams sent by handle_udp_passthrough
    \* --- downlink_endpoint
    rx_pc,          \* position of the receiver thread
    rx_errs,        \* recv_from errors seen so far (bounds the run)
    n_recv,         \* datagrams received from the socket so far
    packet_ch,      \* mpsc channel receiver -> downlink loop
    return_ch,      \* mpsc channel downlink loop -> receiver (buffers)
    num_packets,    \* AtomicU32 credit counter
    n_bufs,         \* buffers created by `vec![0; buf_size]`
    dl_pc,          \* position of the downlink loop
    dl_cur,         \* the (size, address, buf) the loop holds
    dl_hint,        \* hint sent for dl_cur, or NoHint
    n_hints,        \* hint bytes sent so far
    n_deq,          \* datagrams dequeued so far
    dl_written,     \* frames passed to the port's write function
    dl_dropped,     \* datagram ids whose frame could not be built
    \* --- file-protocol storage: validate_file on one directory listing
    vf_pc,          \* "call" before validate_file ran, "done" after
    vf_present,     \* chunk indices that have a file in the hash directory
    vf_num,         \* num_chunks of the file
    vf_entries,     \* converted_entries, sorted
    vf_k,           \* position of the loop in vf_entries
    vf_loop,        \* the loop's locals: missing_ranges, prev_entry, max_entries
    vf_result,      \* what validate_file returned: [complete, ranges]
    \* --- file-protocol storage: the staging area of one prefix
    source,         \* content of the source file
    storage,        \* hash -> hash directory, for the directories that exist
    target,         \* the target file of finalize_file
    result,         \* what the last storage call returned
    \* --- file-protocol storage: one store_meta call and a load_meta beside it
    sm_pc,          \* position of store_meta: idle, create, write, rename
    sm_args,        \* the metadata of the call
    sm_vec,         \* `vec`, the serialised metadata
    sm_prev,        \* the meta file as it was when the call began
    sm_committed,   \* metadata that a rename has put in place so far
    sm_dir,         \* name -> file, for the names meta and .meta.tmp
    sm_files,       \* the content of each file ever created
    sm_calls,       \* store_meta calls so far (bounds the run)
    sm_ret,         \* how the last store_meta call ended
    ld_pc,          \* position of load_meta: idle, opened
    ld_fd,          \* the file load_meta has open
    ld_ret,         \* what the last load_meta returned
    \* --- scheduler: one call of Scheduler::start
    sc_modes,       \* mode -> the task list files of its directory, sorted
    sc_active,      \* the active mode
    sc_entry,       \* the mode that was active when start() was called
    sc_pc,          \* position of start(): start, lists, failed, returned, panicked
    sc_k,           \* position of check_start in the mode's task lists
    sc_map,         \* scheduler_map: file name -> mode whose handle it holds
    sc_started,     \* <<mode, list>> whose tasks were scheduled
    sc_signalled,   \* file names whose handle was sent the stop signal
    \* --- scheduler: one call of Scheduler::init
    init_pc,        \* position of init(): idle, dir, active, available, create, activate, done
    scheduler_dir,  \* the scheduler root is a directory
    mode_dirs,      \* the mode directories under the root
    active_link,    \* the mode named by the `active` marker, or none
    init_entry,     \* the marker and the mode directories when init() was called
    init_ret,       \* what init() returned
    \* --- scheduler: one call of parse_hms_field
    hms_pc,         \* idle, call, done
    field,          \* the argument, a string as the sequence of its characters
    hms_ret,        \* what the call returned
    \* --- scheduler: get_absolute and validate_task_list on one task
    ta_task,        \* the task
    ta_before,      \* the tasks before it in its list
    ta_after,       \* the tasks after it in its list
    ta_now,         \* what the clock reads, 0 with no call to make
    ta_abs,         \* what get_absolute returned
    ta_valid,       \* what validate_task_list returned
    \* --- scheduler: one task list, checked, started and stopped
    tk_pc,          \* check_start on the list: idle, check, valid, failed, started
    tk_tasks,       \* the tasks of the list
    tk_now,         \* what the clock reads when the list is validated
    tk_config,      \* the telemetry service is configured with a direct_port
    tk_fut,         \* the future of each task: where it waits, retry, counts
    tk_stop,        \* the stop channel of the list: none, sent, closed
    tk_sink,        \* the datapoints sent to the telemetry service
    \* --- file client: one run of the process
    cl_pc,          \* idle, run, finish, exited
    cl_args,        \* the parsed command line: command, target_path given
    cl_step,        \* calls of the operation that have returned Ok
    cl_result,      \* `result`: none, Ok, Err
    cl_exit,        \* the exit status of the process, NoExit while it runs
    \* --- initialize_file: the chunk count of one source file
    nc_pc,          \* idle, call, returned, panicked
    nc_in,          \* file_size (u64 limbs), transfer_chunk_size, overflow_checks
    nc_ret,         \* the returned num_chunks: two 16-bit limbs, the lowest first
    \* --- scheduler: check_start_task_list, check_stop_task_list
    tl_active,      \* the name of the active mode
    tl_lists,       \* the active mode's directory: list name -> what the file holds
    tl_map,         \* scheduler_map: list name -> index of its SchedulerHandle
    tl_handles,     \* every handle made: list name, stop channel open / sent / closed
    tl_ret,         \* the last call: op, name, mode, kind of the result
    tl_calls,       \* calls made
    \* --- import_task_list, import_raw_task_list: one call
    im_pc,          \* idle, call, returned
    im_modes,       \* the mode directories that exist
    im_dir,         \* the files of the mode named by the call: name -> content
    im_in,          \* op, name, mode, the imported content, the i/o failure
    im_ret          \* Ok, or the kind of the error

dl_vars == <<rx_pc, rx_errs, n_recv, packet_ch, return_ch, num_packets, n_bufs,
             dl_pc, dl_cur, dl_hint, n_hints, n_deq, dl_written, dl_dropped>>
rd_vars == <<rd_pc, packet, n_read, num_handlers, handlers, forwarded>>
vf_vars == <<vf_pc, vf_present, vf_num, vf_entries, vf_k, vf_loop, vf_result>>
st_vars == <<source, storage, target, result>>
sm_vars == <<sm_pc, sm_args, sm_vec, sm_prev, sm_committed, sm_dir, sm_files,
             sm_calls, sm_ret, ld_pc, ld_fd, ld_ret>>
fp_vars == <<vf_vars, st_vars, sm_vars>>
sc_vars == <<sc_modes, sc_active, sc_entry, sc_pc, sc_k, sc_map, sc_started,
             sc_signalled>>
in_vars == <<init_pc, scheduler_dir, mode_dirs, active_link, init_entry, init_ret>>
hms_vars == <<hms_pc, field, hms_ret>>
ta_vars == <<ta_task, ta_before, ta_after, ta_now, ta_abs, ta_valid>>
tk_vars == <<tk_pc, tk_tasks, tk_now, tk_config, tk_fut, tk_stop, tk_sink>>
sch_vars == <<in_vars, hms_vars, ta_vars, tk_vars>>
cl_vars == <<cl_pc, cl_args, cl_step, cl_result, cl_exit>>
nc_vars == <<nc_pc, nc_in, nc_ret>>
tl_vars == <<tl_active, tl_lists, tl_map, tl_handles, tl_ret, tl_calls>>
im_vars == <<im_pc, im_modes, im_dir, im_in, im_ret>>
ext_vars == <<cl_vars, nc_vars, tl_vars, im_vars>>
vars == <<telem, errors, rd_vars, dl_vars, fp_vars, sc_vars, sch_vars, ext_vars>>

NoPacket == [command_id |-> 0, class |-> "none", dest |-> 0, payload |-> "none"]
NoReply == "none"

ErrorKinds == {"Io", "Build", "Write", "NoAvailablePorts", "HeaderParsing",
               "InvalidChecksum", "UnknownPayloadType", "Handler"}

NoItem == [id |-> 0, peer |-> "none"]
NoHint == -1
\* the process has not exited
NoExit == -1

\* telemetry.rs: log_telemetry bumps one counter, log_error records one error
LogTelemetry(t, type) == [t EXCEPT ![type] = @ + 1]
LogError(e, kind) == [e EXCEPT ![kind] = @ + 1]

\* LinkPacket::build(command_id, payload_type, destination, payload)
Build(command_id, class, dest, payload) ==
    [command_id |-> command_id, class |-> class, dest |-> dest, payload |-> payload]

\* ------------------------------------------------------------------ Init
TelemInit ==
    /\ telem = [up |-> 0, up_failed |-> 0, down |-> 0, down_failed |-> 0]
    /\ errors = [k \in ErrorKinds |-> 0]

DlInit ==
    /\ rx_pc = "get_buf"
    /\ rx_errs = 0
    /\ n_recv = 0
    /\ packet_ch = <<>>
    /\ return_ch = 0
    /\ num_packets = 0
    /\ n_bufs = 0
    /\ dl_pc = "recv"
    /\ dl_cur = NoItem
    /\ dl_hint = NoHint
    /\ n_hints = 0
    /\ n_deq = 0
    /\ dl_written = <<>>
    /\ dl_dropped = {}

RdInit ==
    /\ rd_pc = "read"
    /\ packet = NoPacket
    /\ n_read = 0
    /\ num_handlers = 0
    /\ handlers = <<>>
    /\ forwarded = <<>>

\* the file-protocol storage with no call made
VfIdle ==
    /\ vf_pc = "idle"
    /\ vf_present = {}
    /\ vf_num = 0
    /\ vf_entries = <<>>
    /\ vf_k = 1
    /\ vf_loop = [missing_ranges |-> <<>>, prev_entry |-> -1, max_entries |-> 0]
    /\ vf_result = [complete |-> TRUE, ranges |-> <<>>]

\* no hash directory staged, no call made
StIdle ==
    /\ source = <<>>
    /\ storage = <<>>
    /\ target = [exists |-> FALSE, data |-> <<>>]
    /\ result = [op |-> "none", hash |-> 0, kind |-> "Ok", action |-> "",
                 index |-> -1, complete |-> FALSE, ranges |-> <<>>, data |-> <<>>]

\* no store_meta or load_meta under way, an empty hash directory
SmIdle ==
    /\ sm_pc = "idle"
    /\ sm_args = [num_chunks |-> 0, chunk_size |-> {}, file_path |-> {}]
    /\ sm_vec = <<>>
    /\ sm_prev = [exists |-> FALSE, doc |-> <<>>]
    /\ sm_committed = {}
    /\ sm_dir = [name \in {"meta", ".meta.tmp"} |-> 0]
    /\ sm_files = <<>>
    /\ sm_calls = 0
    /\ sm_ret = "none"
    /\ ld_pc = "idle"
    /\ ld_fd = 0
    /\ ld_ret = [kind |-> "none", meta |-> [num_chunks |-> 0, chunk_size |-> {}, file_path |-> {}]]

FpIdle == VfIdle /\ StIdle /\ SmIdle

\* the scheduler with start() not called
ScIdle ==
    /\ sc_modes = [m \in {"safe", "ops"} |-> <<>>]
    /\ sc_active = "safe"
    /\ sc_entry = "safe"
    /\ sc_pc = "idle"
    /\ sc_k = 1
    /\ sc_map = <<>>
    /\ sc_started = {}
    /\ sc_signalled = {}

\* init() not called, nothing on disk
InIdle ==
    /\ init_pc = "idle"
    /\ scheduler_dir = FALSE
    /\ mode_dirs = {}
    /\ active_link = "none"
    /\ init_entry = [active |-> "none", modes |-> {}]
    /\ init_ret = "none"

\* parse_hms_field not called
HmsIdle ==
    /\ hms_pc = "idle"
    /\ field = <<>>
    /\ hms_ret = [kind |-> "none", description |-> "", secs |-> <<0, 0, 0, 0>>]

\* no task at hand
TaIdle ==
    /\ ta_task = [id |-> {}, delay |-> {}, time |-> {}, period |-> {}, app |-> ""]
    /\ ta_before = <<>>
    /\ ta_after = <<>>
    /\ ta_now = 0
    /\ ta_abs = [kind |-> "none", err |-> "", at |-> 0]
    /\ ta_valid = [kind |-> "none", err |-> ""]

\* no task list at hand
TkIdle ==
    /\ tk_pc = "idle"
    /\ tk_tasks = <<>>
    /\ tk_now = 0
    /\ tk_config = FALSE
    /\ tk_fut = <<>>
    /\ tk_stop = "none"
    /\ tk_sink = <<>>

SchIdle == InIdle /\ HmsIdle /\ TaIdle /\ TkIdle

ClIdle ==
    /\ cl_pc = "idle"
    /\ cl_args = [command |-> "none", target_path |-> FALSE]
    /\ cl_step = 0
    /\ cl_result = "none"
    /\ cl_exit = NoExit

NcIdle ==
    /\ nc_pc = "idle"
    /\ nc_in = [file_size |-> <<0, 0, 0, 0>>, transfer_chunk_size |-> 1,
                overflow_checks |-> FALSE]
    /\ nc_ret = <<0, 0>>

TlIdle ==
    /\ tl_active = <<"s", "a", "f", "e">>
    /\ tl_lists = [n \in {<<"a">>, <<"b">>} |-> "absent"]
    /\ tl_map = <<>>
    /\ tl_handles = <<>>
    /\ tl_ret = [op |-> "none"]
    /\ tl_calls = 0

ImIdle ==
    /\ im_pc = "idle"
    /\ im_modes = {}
    /\ im_dir = <<>>
    /\ im_in = [op |-> "none"]
    /\ im_ret = "none"

ExtIdle == ClIdle /\ NcIdle /\ TlIdle /\ ImIdle

Init == TelemInit /\ RdInit /\ DlInit /\ FpIdle /\ ScIdle /\ SchIdle /\ ExtIdle

\* ------------------------------------------------- receiver thread steps
\* buf is None: return_rx.try_recv()
RxTryRecv ==
    /\ rx_pc = "get_buf"
    /\ IF return_ch > 0
         THEN /\ return_ch' = return_ch - 1
              /\ rx_pc' = "recv"
         ELSE /\ rx_pc' = "load"
              /\ UNCHANGED return_ch
    /\ UNCHANGED <<rd_vars, fp_vars, sc_vars, sch_vars, ext_vars>>
    /\ UNCHANGED <<telem, errors, rx_errs, n_recv, packet_ch, num_packets, n_bufs,
                   dl_pc, dl_cur, dl_hint, n_hints, n_deq, dl_written, dl_dropped>>

\* try_recv failed: num_packets.load(); yield and retry, or create a buffer
RxLoad ==
    /\ rx_pc = "load"
    /\ IF num_packets >= max
         THEN /\ rx_pc' = "get_buf"
              /\ UNCHANGED n_bufs
         ELSE /\ rx_pc' = "recv"
              /\ n_bufs' = n_bufs + 1
    /\ UNCHANGED <<rd_vars, fp_vars, sc_vars, sch_vars, ext_vars>>
    /\ UNCHANGED <<telem, errors, rx_errs, n_recv, packet_ch, return_ch, num_packets,
                   dl_pc, dl_cur, dl_hint, n_hints, n_deq, dl_written, dl_dropped>>

\* socket.recv_from succeeded; packet_tx.send((size, address, mut_buf))
RxRecvSend(limit, peers) ==
    /\ rx_pc = "recv"
    /\ n_recv < limit
    /\ \E peer \in peers :
         packet_ch' = Append(packet_ch, [id |-> n_recv + 1, peer |-> peer])
    /\ n_recv' = n_recv + 1
    /\ rx_pc' = "add"
    /\ UNCHANGED <<rd_vars, fp_vars, sc_vars, sch_vars, ext_vars>>
    /\ UNCHANGED <<telem, errors, rx_errs, return_ch, num_packets, n_bufs,
                   dl_pc, dl_cur, dl_hint, n_hints, n_deq, dl_written, dl_dropped>>

\* socket.recv_from failed: log the error, keep the buffer, retry
RxRecvError ==
    /\ rx_pc = "recv"
    /\ rx_errs < MaxRecvErrors
    /\ rx_errs' = rx_errs + 1
    /\ errors' = LogError(errors, "Io")
    /\ UNCHANGED <<rd_vars, fp_vars, sc_vars, sch_vars, ext_vars>>
    /\ UNCHANGED <<telem, rx_pc, n_recv, packet_ch, return_ch, num_packets, n_bufs,
                   dl_pc, dl_cur, dl_hint, n_hints, n_deq, dl_written, dl_dropped>>

\* num_packets.fetch_add(1, SeqCst); the u32 wraps only after 2^32 - 1
\* increments, far beyond the datagrams of any run explored here
FetchAdd(x) == x + 1

RxFetchAdd ==
    /\ rx_pc = "add"
    /\ num_packets' = FetchAdd(num_packets)
    /\ rx_pc' = "get_buf"
    /\ UNCHANGED <<rd_vars, fp_vars, sc_vars, sch_vars, ext_vars>>
    /\ UNCHANGED <<telem, errors, rx_errs, n_recv, packet_ch, return_ch, n_bufs,
                   dl_pc, dl_cur, dl_hint, n_hints, n_deq, dl_written, dl_dropped>>

\* --------------------------------------------------- downlink loop steps
\* variant: the newest packet is taken first
DequeueLast(ch) == [item |-> ch[Len(ch)], rest |-> SubSeq(ch, 1, Len(ch) - 1)]

\* variant: the newest packet is taken and the older ones are discarded
DequeueNewest(ch) == [item |-> ch[Len(ch)], rest |-> <<>>]

\* packet_rx.recv()
Dequeue(ch) == [item |-> Head(ch), rest |-> Tail(ch)]

DlRecv ==
    /\ dl_pc = "recv"
    /\ Len(packet_ch) > 0
    /\ dl_cur' = Dequeue(packet_ch).item
    /\ packet_ch' = Dequeue(packet_ch).rest
    /\ n_deq' = n_deq + 1
    /\ dl_hint' = NoHint
    /\ dl_pc' = "dec"
    /\ UNCHANGED <<rd_vars, fp_vars, sc_vars, sch_vars, ext_vars>>
    /\ UNCHANGED <<telem, errors, rx_pc, rx_errs, n_recv, return_ch, num_packets, n_bufs,
                   n_hints, dl_written, dl_dropped>>

\* num_packets.fetch_update(|x| if x > 0 { Some(x - 1) } else { None }).ok():
\* the previous value when the counter was decremented, NoHint otherwise
FetchUpdate(x) ==
    IF x > 0 THEN [new |-> x - 1, prev |-> x] ELSE [new |-> x, prev |-> NoHint]

\* msg = [max as u8 - min(num_pkts, max) as u8]
HintByte(num_pkts) == max - Min(num_pkts, max)

DlCredit ==
    /\ dl_pc = "dec"
    /\ num_packets' = FetchUpdate(num_packets).new
    /\ IF FetchUpdate(num_packets).prev # NoHint
         THEN /\ dl_hint' = HintByte(FetchUpdate(num_packets).prev)
              /\ n_hints' = n_hints + 1
         ELSE UNCHANGED <<dl_hint, n_hints>>
    /\ dl_pc' = "send"
    /\ UNCHANGED <<rd_vars, fp_vars, sc_vars, sch_vars, ext_vars>>
    /\ UNCHANGED <<telem, errors, rx_pc, rx_errs, n_recv, packet_ch, return_ch, n_bufs,
                   dl_cur, n_deq, dl_written, dl_dropped>>

\* Packet::build(0, UDP, port.port, &buf[0..size]) failed: log, `continue`
DlBuildError ==
    /\ dl_pc = "send"
    /\ errors' = LogError(errors, "Build")
    /\ dl_dropped' = dl_dropped \cup {dl_cur.id}
    /\ dl_cur' = NoItem
    /\ dl_pc' = "recv"
    /\ UNCHANGED <<rd_vars, fp_vars, sc_vars, sch_vars, ext_vars>>
    /\ UNCHANGED <<telem, rx_pc, rx_errs, n_recv, packet_ch, return_ch, num_packets, n_bufs,
                   dl_hint, n_hints, n_deq, dl_written>>

\* the buffer of a frame that was built goes back: return_tx.send(buf)
ReturnBuf(ch) == ch + 1

\* build succeeded; write(&write_conn, &packet); telemetry; return the buffer
DlWrite(ok) ==
    /\ dl_pc = "send"
    /\ dl_written' = Append(dl_written, Build(0, "Udp", port, dl_cur.id))
    /\ IF ok
         THEN /\ telem' = LogTelemetry(telem, "down")
              /\ UNCHANGED errors
         ELSE /\ telem' = LogTelemetry(telem, "down_failed")
              /\ errors' = LogError(errors, "Write")
    /\ return_ch' = ReturnBuf(return_ch)
    /\ dl_cur' = NoItem
    /\ dl_pc' = "recv"
    /\ UNCHANGED <<rd_vars, fp_vars, sc_vars, sch_vars, ext_vars>>
    /\ UNCHANGED <<rx_pc, rx_errs, n_recv, packet_ch, num_packets, n_bufs,
                   dl_hint, n_hints, n_deq, dl_dropped>>

\* the steps of the two workers when every socket and codec call succeeds
DlSteps(limit, peers) ==
    \/ RxTryRecv
    \/ RxLoad
    \/ RxRecvSend(limit, peers)
    \/ RxFetchAdd
    \/ DlRecv
    \/ DlCredit
    \/ DlWrite(TRUE)

DlNext ==
    \/ DlSteps(MaxDatagrams, Peers)
    \/ RxRecvError
    \/ DlBuildError
    \/ DlWrite(FALSE)

\* the downlink endpoint of one port, with failing sockets, codec and gateway
SpecDownlink == Init /\ [][DlNext]_vars

\* both workers keep being scheduled: no thread waits forever at a step it
\* can take (the OS scheduler; recv() and try_recv() return once a value is
\* in the channel). Nothing is assumed of the producer.
DlFairness ==
    /\ WF_vars(RxTryRecv)
    /\ WF_vars(RxLoad)
    /\ WF_vars(RxFetchAdd)
    /\ WF_vars(DlRecv)
    /\ WF_vars(DlCredit)
    /\ WF_vars(DlWrite(TRUE) \/ DlWrite(FALSE) \/ DlBuildError)

FairSpecDownlink == SpecDownlink /\ DlFairness

\* a long run of one producer with no failure, enough to fill the pipeline
DlNextFull == DlSteps(FullDatagrams, {"appA"})

SpecDownlinkFull == Init /\ [][DlNextFull]_vars

\* ------------------------------------------------------ read_thread steps
\* variant: a failed read ends the loop instead of `continue`
ReadErrorBreaks ==
    /\ rd_pc = "read"
    /\ n_read < MaxFrames
    /\ n_read' = n_read + 1
    /\ errors' = LogError(errors, "Io")
    /\ rd_pc' = "ended"
    /\ UNCHANGED <<dl_vars, fp_vars, sc_vars, sch_vars, ext_vars>>
    /\ UNCHANGED <<telem, packet, num_handlers, handlers, forwarded>>

\* (read)(&comms.read_conn) failed: log the error, `continue`
ReadError ==
    /\ rd_pc = "read"
    /\ n_read < MaxFrames
    /\ n_read' = n_read + 1
    /\ errors' = LogError(errors, "Io")
    /\ UNCHANGED <<dl_vars, fp_vars, sc_vars, sch_vars, ext_vars>>
    /\ UNCHANGED <<telem, rd_pc, packet, num_handlers, handlers, forwarded>>

\* variant: the uplink is counted before the packet is parsed and validated
ReadInvalidCountsUp(kind) ==
    /\ rd_pc = "read"
    /\ n_read < MaxFrames
    /\ n_read' = n_read + 1
    /\ telem' = LogTelemetry(LogTelemetry(telem, "up"), "up_failed")
    /\ errors' = LogError(errors, kind)
    /\ UNCHANGED <<dl_vars, fp_vars, sc_vars, sch_vars, ext_vars>>
    /\ UNCHANGED <<rd_pc, packet, num_handlers, handlers, forwarded>>

\* Packet::parse failed, or packet.validate() returned false
ReadInvalid(kind) ==
    /\ rd_pc = "read"
    /\ n_read < MaxFrames
    /\ n_read' = n_read + 1
    /\ telem' = LogTelemetry(telem, "up_failed")
    /\ errors' = LogError(errors, kind)
    /\ UNCHANGED <<dl_vars, fp_vars, sc_vars, sch_vars, ext_vars>>
    /\ UNCHANGED <<rd_pc, packet, num_handlers, handlers, forwarded>>

\* the bytes parse and validate: count the uplink, go on to the match
ReadOk(f) ==
    /\ rd_pc = "read"
    /\ n_read < MaxFrames
    /\ n_read' = n_read + 1
    /\ telem' = LogTelemetry(telem, "up")
    /\ packet' = f
    /\ rd_pc' = "dispatch"
    /\ UNCHANGED <<dl_vars, fp_vars, sc_vars, sch_vars, ext_vars>>
    /\ UNCHANGED <<errors, num_handlers, handlers, forwarded>>

\* PayloadType::Unknown(value)
DispatchUnknown ==
    /\ rd_pc = "dispatch"
    /\ packet.class = "Unknown"
    /\ errors' = LogError(errors, "UnknownPayloadType")
    /\ packet' = NoPacket
    /\ rd_pc' = "read"
    /\ UNCHANGED <<dl_vars, fp_vars, sc_vars, sch_vars, ext_vars>>
    /\ UNCHANGED <<telem, n_read, num_handlers, handlers, forwarded>>

\* variant: the result of the forward is not looked at
UdpTelemTypeDown(ok) == "down"

\* `match handle_udp_passthrough(packet, sat_ref)`: Ok records Down, Err
\* records DownFailed
UdpTelemType(ok) == IF ok THEN "down" ELSE "down_failed"

\* PayloadType::UDP: handle_udp_passthrough inline, in the read loop
DispatchUdp(ok) ==
    /\ rd_pc = "dispatch"
    /\ packet.class = "Udp"
    /\ IF ok
         THEN /\ forwarded' = Append(forwarded, [dest |-> packet.dest, payload |-> packet.payload])
              /\ telem' = LogTelemetry(telem, UdpTelemType(ok))
              /\ UNCHANGED errors
         ELSE /\ telem' = LogTelemetry(telem, UdpTelemType(ok))
              /\ errors' = LogError(errors, "Io")
              /\ UNCHANGED forwarded
    /\ packet' = NoPacket
    /\ rd_pc' = "read"
    /\ UNCHANGED <<dl_vars, fp_vars, sc_vars, sch_vars, ext_vars>>
    /\ UNCHANGED <<n_read, num_handlers, handlers>>

\* variant: the admission test off by one
BudgetExhaustedGt(n) == n > MaxNumHandlers

\* `*num_handlers >= comms.max_num_handlers`
BudgetExhausted(n) == n >= MaxNumHandlers

\* variant: the handler is not counted on admission
TakeSlotNone(n) == n

\* `*num_handlers += 1` on the u16 counter
TakeSlot(n) == (n + 1) % 65536

\* variant: the slot is released only when the handler succeeded
ReleaseSlotOnSuccess(n, res) == IF res = "Ok" THEN (n - 1) % 65536 ELSE n

\* `*num_handlers -= 1` on the u16 counter, before `match res`
ReleaseSlot(n, res) == (n - 1) % 65536

\* PayloadType::GraphQL | UDPDlStream, counter at the budget: drop the frame
DispatchDrop ==
    /\ rd_pc = "dispatch"
    /\ packet.class \in {"Request", "DownStream"}
    /\ BudgetExhausted(num_handlers)
    /\ errors' = LogError(errors, "NoAvailablePorts")
    /\ packet' = NoPacket
    /\ rd_pc' = "read"
    /\ UNCHANGED <<dl_vars, fp_vars, sc_vars, sch_vars, ext_vars>>
    /\ UNCHANGED <<telem, n_read, num_handlers, handlers, forwarded>>

\* PayloadType::GraphQL | UDPDlStream, budget left: count the handler
DispatchAdmit ==
    /\ rd_pc = "dispatch"
    /\ packet.class \in {"Request", "DownStream"}
    /\ ~BudgetExhausted(num_handlers)
    /\ num_handlers' = TakeSlot(num_handlers)
    /\ rd_pc' = "spawn"
    /\ UNCHANGED <<dl_vars, fp_vars, sc_vars, sch_vars, ext_vars>>
    /\ UNCHANGED <<telem, errors, packet, n_read, handlers, forwarded>>

\* a thread as thread::Builder::spawn creates it: the packet moved into it
NewHandler(msg) ==
    [st |-> "start", class |-> msg.class, msg |-> msg, reply |-> NoReply,
     built |-> FALSE, out |-> <<>>, res |-> "none"]

\* thread::Builder::new().spawn(move || ...)
DispatchSpawn ==
    /\ rd_pc = "spawn"
    /\ handlers' = Append(handlers, NewHandler(packet))
    /\ packet' = NoPacket
    /\ rd_pc' = "read"
    /\ UNCHANGED <<dl_vars, fp_vars, sc_vars, sch_vars, ext_vars>>
    /\ UNCHANGED <<telem, errors, n_read, num_handlers, forwarded>>

\* --------------------------------------------------- handler thread steps
\* handle_graphql_request / handle_udp_dl_stream_request up to send_to:
\* bind, set the timeouts, send the payload to (sat_ip, destination)
HandlerSend(h, ok) ==
    /\ handlers[h].st = "start"
    /\ handlers' = [handlers EXCEPT ![h].st = IF ok THEN "wait" ELSE "returned",
                                    ![h].res = IF ok THEN "none" ELSE "Err"]
    /\ UNCHANGED <<dl_vars, fp_vars, sc_vars, sch_vars, ext_vars>>
    /\ UNCHANGED <<telem, errors, rd_pc, packet, n_read, num_handlers, forwarded>>

\* variant: the request's payload is wrapped instead of the datagram received
ResponseFrameEcho(msg, class, data) == Build(msg.command_id, class, 0, msg.payload)

\* the frame a handler wraps a received datagram in
ResponseFrame(msg, class, data) == Build(msg.command_id, class, 0, data)

\* handle_graphql_request: recv_from returned a datagram; build, write
RequestReply(h, r, build_ok, write_ok) ==
    /\ handlers[h].st = "wait"
    /\ handlers[h].class = "Request"
    /\ handlers' = [handlers EXCEPT
         ![h].st = "returned",
         ![h].reply = r,
         ![h].built = build_ok,
         ![h].out = IF build_ok
                      THEN Append(@, ResponseFrame(handlers[h].msg, "Request", r))
                      ELSE @,
         ![h].res = IF build_ok /\ write_ok THEN "Ok" ELSE "Err"]
    /\ UNCHANGED <<dl_vars, fp_vars, sc_vars, sch_vars, ext_vars>>
    /\ UNCHANGED <<telem, errors, rd_pc, packet, n_read, num_handlers, forwarded>>

\* handle_graphql_request: recv_from timed out or failed
RequestTimeout(h) ==
    /\ handlers[h].st = "wait"
    /\ handlers[h].class = "Request"
    /\ handlers' = [handlers EXCEPT ![h].st = "returned", ![h].res = "Err"]
    /\ UNCHANGED <<dl_vars, fp_vars, sc_vars, sch_vars, ext_vars>>
    /\ UNCHANGED <<telem, errors, rd_pc, packet, n_read, num_handlers, forwarded>>

\* the datagrams a local service streams back carry their number as payload
StreamDatagram(k) == ToString(k)

\* variant: the stream's frames get the class of the request handler
StreamFrameAsRequest(msg, data) == ResponseFrame(msg, "Request", data)

\* Packet::build(message.command_id(), PayloadType::UDPDlStream, 0, &buf[0..size])
StreamFrame(msg, data) == ResponseFrame(msg, "DownStream", data)

\* handle_udp_dl_stream_request: one turn of `while let Ok(..) = recv_from`
StreamData(h, r, build_ok, write_ok) ==
    /\ handlers[h].st = "wait"
    /\ handlers[h].class = "DownStream"
    /\ Len(handlers[h].out) < MaxStream
    /\ handlers' = [handlers EXCEPT
         ![h].st = IF build_ok /\ write_ok THEN "wait" ELSE "returned",
         ![h].reply = r,
         ![h].built = build_ok,
         ![h].out = IF build_ok
                      THEN Append(@, StreamFrame(handlers[h].msg, r))
                      ELSE @,
         ![h].res = IF build_ok /\ write_ok THEN "none" ELSE "Err"]
    /\ UNCHANGED <<dl_vars, fp_vars, sc_vars, sch_vars, ext_vars>>
    /\ UNCHANGED <<telem, errors, rd_pc, packet, n_read, num_handlers, forwarded>>

\* handle_udp_dl_stream_request: recv_from timed out or failed, Ok(())
StreamEnd(h) ==
    /\ handlers[h].st = "wait"
    /\ handlers[h].class = "DownStream"
    /\ handlers' = [handlers EXCEPT ![h].st = "returned", ![h].res = "Ok"]
    /\ UNCHANGED <<dl_vars, fp_vars, sc_vars, sch_vars, ext_vars>>
    /\ UNCHANGED <<telem, errors, rd_pc, packet, n_read, num_handlers, forwarded>>

\* the handler function returned: lock the counter and decrement it
HandlerRelease(h) ==
    /\ handlers[h].st = "returned"
    /\ num_handlers' = ReleaseSlot(num_handlers, handlers[h].res)
    /\ handlers' = [handlers EXCEPT ![h].st = "log"]
    /\ UNCHANGED <<dl_vars, fp_vars, sc_vars, sch_vars, ext_vars>>
    /\ UNCHANGED <<telem, errors, rd_pc, packet, n_read, forwarded>>

\* `match res`: telemetry, then the closure ends and the thread exits
HandlerLog(h) ==
    /\ handlers[h].st = "log"
    /\ IF handlers[h].res = "Ok"
         THEN /\ telem' = LogTelemetry(telem, "down")
              /\ UNCHANGED errors
         ELSE /\ telem' = LogTelemetry(telem, "down_failed")
              /\ errors' = LogError(errors, "Handler")
    /\ handlers' = [handlers EXCEPT ![h].st = "exited"]
    /\ UNCHANGED <<dl_vars, fp_vars, sc_vars, sch_vars, ext_vars>>
    /\ UNCHANGED <<rd_pc, packet, n_read, num_handlers, forwarded>>

RdNext ==
    \/ ReadError
    \/ ReadInvalid("HeaderParsing")
    \/ ReadInvalid("InvalidChecksum")
    \/ \E f \in Frames : ReadOk(f)
    \/ DispatchUnknown
    \/ \E ok \in BOOLEAN : DispatchUdp(ok)
    \/ DispatchDrop
    \/ DispatchAdmit
    \/ DispatchSpawn
    \/ \E h \in DOMAIN handlers :
         \/ \E ok \in BOOLEAN : HandlerSend(h, ok)
         \/ \E r \in Responses, b, w \in BOOLEAN : RequestReply(h, r, b, w)
         \/ RequestTimeout(h)
         \/ \E b, w \in BOOLEAN :
              StreamData(h, StreamDatagram(Len(handlers[h].out) + 1), b, w)
         \/ StreamEnd(h)
         \/ HandlerRelease(h)
         \/ HandlerLog(h)

SpecBridge == Init /\ [][RdNext]_vars

\* ===================================================== file-protocol storage
\* libs/file-protocol/src/storage.rs

\* converted_entries.sort(): the numeric directory entries, ascending
SortEntries(entries) ==
    [k \in 1..Cardinality(entries) |->
        CHOOSE e \in entries : Cardinality({o \in entries : o < e}) = k - 1]

\* variant: an entry that directly follows the previous one opens a range
IsGapGe(entry_num, prev_entry) == entry_num - prev_entry >= 1

\* `if entry_num - prev_entry > 1`
IsGap(entry_num, prev_entry) == entry_num - prev_entry > 1

\* validate_file's locals before its loop
LoopStart == [missing_ranges |-> <<>>, prev_entry |-> -1, max_entries |-> max_entries]

\* one turn of `for &entry_num in converted_entries.iter()`; the loop is left
\* by `break` in the turn that brings max_entries to 0
RangeStep(loop, entry_num) ==
    IF IsGap(entry_num, loop.prev_entry)
      THEN [missing_ranges |->
                loop.missing_ranges \o <<loop.prev_entry + 1, entry_num>>,
            prev_entry |-> IF loop.max_entries - 1 = 0
                             THEN loop.prev_entry ELSE entry_num,
            max_entries |-> loop.max_entries - 1]
      ELSE [loop EXCEPT !.prev_entry = entry_num]

\* the loop from entry k on
RECURSIVE RangeLoop(_, _, _)
RangeLoop(entries, k, loop) ==
    IF k > Len(entries) \/ loop.max_entries = 0
      THEN loop
      ELSE RangeLoop(entries, k + 1, RangeStep(loop, entries[k]))

\* "Check for a trailing range"
TrailingRange(loop, num_chunks) ==
    IF loop.max_entries # 0 /\ num_chunks - loop.prev_entry # 1
      THEN loop.missing_ranges \o <<loop.prev_entry + 1, num_chunks>>
      ELSE loop.missing_ranges

\* Ok((missing_ranges.is_empty(), missing_ranges))
ValidateOk(missing_ranges) ==
    [complete |-> missing_ranges = <<>>, ranges |-> missing_ranges]

\* validate_file once num_chunks is known
MissingRanges(present, num_chunks) ==
    ValidateOk(TrailingRange(RangeLoop(SortEntries(present), 1, LoopStart), num_chunks))

\* listings that have a gap before every chunk, with n chunks in all
OddChunks(n) == {i \in 0..(n - 1) : i % 2 = 1}
\* listings that have a gap after every chunk
EvenChunks(n) == {i \in 0..(n - 1) : i % 2 = 0}

\* the (present, num_chunks) validate_file is called on
VfInputs ==
    {<<P, n>> : P \in SUBSET (0..(MaxSmallChunks - 1)), n \in 0..MaxSmallChunks}
    \cup {<<OddChunks(n), n>> :
            n \in (2 * max_entries - CapSlack)..(2 * max_entries + CapSlack)}
    \cup {<<EvenChunks(n), n>> :
            n \in (2 * max_entries - CapSlack)..(2 * max_entries + CapSlack)}

VfInit ==
    /\ vf_pc = "call"
    /\ \E in \in VfInputs :
          /\ in[1] \subseteq 0..(in[2] - 1)
          /\ vf_present = in[1]
          /\ vf_num = in[2]
    /\ vf_entries = <<>>
    /\ vf_k = 1
    /\ vf_loop = LoopStart
    /\ vf_result = [complete |-> TRUE, ranges |-> <<>>]

\* validate_file(prefix, hash, None) on a directory whose meta says vf_num:
\* read_dir, keep the numeric names, sort them
VfReadDir ==
    /\ vf_pc = "call"
    /\ vf_entries' = SortEntries(vf_present)
    /\ vf_pc' = "loop"
    /\ UNCHANGED <<vf_present, vf_num, vf_k, vf_loop, vf_result>>
    /\ UNCHANGED <<sch_vars, ext_vars, sc_vars, telem, errors, rd_vars, dl_vars, st_vars, sm_vars>>

\* one turn of the loop over converted_entries
VfLoopStep ==
    /\ vf_pc = "loop"
    /\ vf_k <= Len(vf_entries)
    /\ vf_loop.max_entries # 0
    /\ vf_loop' = RangeStep(vf_loop, vf_entries[vf_k])
    /\ vf_k' = vf_k + 1
    /\ UNCHANGED <<vf_pc, vf_present, vf_num, vf_entries, vf_result>>
    /\ UNCHANGED <<sch_vars, ext_vars, sc_vars, telem, errors, rd_vars, dl_vars, st_vars, sm_vars>>

\* the loop is over: the trailing range, then the return
VfReturn ==
    /\ vf_pc = "loop"
    /\ vf_k > Len(vf_entries) \/ vf_loop.max_entries = 0
    /\ vf_result' = ValidateOk(TrailingRange(vf_loop, vf_num))
    /\ vf_pc' = "done"
    /\ UNCHANGED <<vf_present, vf_num, vf_entries, vf_k, vf_loop>>
    /\ UNCHANGED <<sch_vars, ext_vars, sc_vars, telem, errors, rd_vars, dl_vars, st_vars, sm_vars>>

VfNext == VfReadDir \/ VfLoopStep \/ VfReturn

InitValidate == TelemInit /\ RdInit /\ DlInit /\ VfInit /\ StIdle /\ SmIdle /\ ScIdle /\ SchIdle /\ ExtIdle

SpecValidate == InitValidate /\ [][VfNext]_vars

\* validate_file on a directory that may hold chunk files of another
\* transfer of the same hash: numeric entries at or beyond num_chunks
VfInitAny ==
    /\ vf_pc = "call"
    /\ \E in \in VfInputs :
          /\ vf_present = in[1]
          /\ vf_num = in[2]
    /\ vf_entries = <<>>
    /\ vf_k = 1
    /\ vf_loop = LoopStart
    /\ vf_result = [complete |-> TRUE, ranges |-> <<>>]

InitValidateAny ==
    TelemInit /\ RdInit /\ DlInit /\ VfInitAny /\ StIdle /\ SmIdle /\ ScIdle /\ SchIdle /\ ExtIdle

SpecValidateAny == InitValidateAny /\ [][VfNext]_vars

\* ------------------------------------------------ storage: files and hashes
Bytes == {0, 1}
\* the contents a source file can have
Files == UNION {[1..n -> Bytes] : n \in 0..MaxFileLen}

\* Option<T>: None and Some(x)
None == {}
Some(x) == {x}

\* calc_file_hash: the digest is folded over the bytes in file order,
\* whatever the size of the reads; digests are the numbers below HashSpace
RECURSIVE Blake2s(_)
Blake2s(data) ==
    IF data = <<>> THEN 1
    ELSE (3 * Blake2s(SubSeq(data, 1, Len(data) - 1)) + data[Len(data)] + 1) % HashSpace

calc_file_hash(data) == Blake2s(data)

\* variant: a last partial chunk is not counted
NumChunksFloor(file_size, chunk_size) == file_size \div chunk_size

\* initialize_file: file_size / chunk_size + (file_size % chunk_size > 0)
NumChunks(file_size, chunk_size) ==
    (file_size \div chunk_size) + (IF file_size % chunk_size > 0 THEN 1 ELSE 0)

\* variant: the read starts at the beginning of the file
SeekTakeFromStart(data, chunk_size, index) ==
    SubSeq(data, 1, Min(chunk_size, Len(data)))

\* file.seek(chunk_size * index), file.take(chunk_size).read_to_end(..)
SeekTake(data, chunk_size, index) ==
    SubSeq(data, chunk_size * index + 1, Min(chunk_size * (index + 1), Len(data)))

\* chunk indices a call can name
ChunkIdx == 0..(NumChunks(MaxFileLen, ChunkSize) - 1)

\* a chunk as a faulty sender or link delivers it: its first byte flipped,
\* or one byte where the chunk is empty
Tamper(data) ==
    IF data = <<>> THEN <<1>> ELSE [data EXCEPT ![1] = 1 - @]

\* struct Meta and its serialisation by to_vec / de::from_slice: one entry
\* per field, in field order; a document cut short does not parse
Meta(num_chunks, chunk_size, file_path) ==
    [num_chunks |-> num_chunks, chunk_size |-> chunk_size, file_path |-> file_path]

to_vec(meta) ==
    << [key |-> "num_chunks", val |-> Some(meta.num_chunks)],
       [key |-> "chunk_size", val |-> meta.chunk_size],
       [key |-> "file_path", val |-> meta.file_path] >>

Parses(doc) ==
    /\ Len(doc) = 3
    /\ doc[1].key = "num_chunks" /\ doc[1].val # None
    /\ doc[2].key = "chunk_size"
    /\ doc[3].key = "file_path"

from_slice(doc) ==
    Meta(CHOOSE n \in doc[1].val : TRUE, doc[2].val, doc[3].val)

\* results: Ok, and the ProtocolError values the storage functions return
Ok == [kind |-> "Ok", action |-> "", index |-> -1]
StorageError(action, index) == [kind |-> "StorageError", action |-> action, index |-> index]
StorageParseError == [kind |-> "StorageParseError", action |-> "parse metadata", index |-> -1]
FinalizeError == [kind |-> "FinalizeError", action |-> "file missing chunks", index |-> -1]
HashMismatch == [kind |-> "HashMismatch", action |-> "", index |-> -1]

\* a hash directory: the meta file and the chunk files, by chunk index
EmptyDir == [has_meta |-> FALSE, meta |-> <<>>, chunks |-> <<>>]
ChunkFile(data) == [data |-> data, readable |-> TRUE]

\* fs::create_dir_all(<prefix>/storage/<hash>)
create_dir_all(st, hash) ==
    IF hash \in DOMAIN st THEN st
    ELSE [h \in DOMAIN st \cup {hash} |-> IF h = hash THEN EmptyDir ELSE st[h]]

\* variant: metadata that is there is kept
store_meta_keep(st, hash, meta) ==
    IF hash \in DOMAIN st /\ st[hash].has_meta THEN st
    ELSE [create_dir_all(st, hash) EXCEPT ![hash].has_meta = TRUE,
                                          ![hash].meta = to_vec(meta)]

\* store_meta as one step: the document goes to .meta.tmp, which is renamed
\* to meta
store_meta(st, hash, meta) ==
    [create_dir_all(st, hash) EXCEPT ![hash].has_meta = TRUE,
                                     ![hash].meta = to_vec(meta)]

\* load_meta: open and read hash/meta, parse it
load_meta(st, hash) ==
    IF hash \notin DOMAIN st \/ ~st[hash].has_meta
      THEN [res |-> StorageError("open metadata file", -1), meta |-> Meta(0, None, None)]
      ELSE IF ~Parses(st[hash].meta)
             THEN [res |-> StorageParseError, meta |-> Meta(0, None, None)]
             ELSE [res |-> Ok, meta |-> from_slice(st[hash].meta)]

\* store_chunk: create the directory, create or truncate the chunk file,
\* write the data
store_chunk(st, hash, index, data) ==
    LET made == create_dir_all(st, hash)
    IN  [made EXCEPT ![hash].chunks =
            [i \in DOMAIN made[hash].chunks \cup {index} |->
                IF i = index THEN ChunkFile(data) ELSE made[hash].chunks[i]]]

\* load_chunk: from the source file when meta names one, else from the
\* chunk file
load_chunk(st, src, hash, index) ==
    LET m == load_meta(st, hash)
    IN  IF m.res # Ok THEN [res |-> m.res, data |-> <<>>]
        ELSE IF m.meta.chunk_size # None /\ m.meta.file_path # None
          THEN [res |-> Ok,
                data |-> SeekTake(src, CHOOSE c \in m.meta.chunk_size : TRUE, index)]
          ELSE IF index \notin DOMAIN st[hash].chunks
                 THEN [res |-> StorageError("open chunk file", index), data |-> <<>>]
                 ELSE IF ~st[hash].chunks[index].readable
                        THEN [res |-> StorageError("read chunk file", index),
                              data |-> <<>>]
                        ELSE [res |-> Ok, data |-> st[hash].chunks[index].data]

\* delete_chunk: fs::remove_file of the chunk file
delete_chunk(st, hash, index) ==
    IF hash \notin DOMAIN st \/ index \notin DOMAIN st[hash].chunks
      THEN [res |-> StorageError("deleting chunk file", index), st |-> st]
      ELSE [res |-> Ok,
            st |-> [st EXCEPT ![hash].chunks =
                       [i \in DOMAIN st[hash].chunks \ {index} |-> st[hash].chunks[i]]]]

\* variant: a hash directory that is not there counts as deleted
delete_file_force(st, hash) ==
    IF hash \notin DOMAIN st
      THEN [res |-> Ok, st |-> st]
      ELSE [res |-> Ok, st |-> [h \in DOMAIN st \ {hash} |-> st[h]]]

\* delete_file: fs::remove_dir_all of the hash directory
delete_file(st, hash) ==
    IF hash \notin DOMAIN st
      THEN [res |-> StorageError("deleting file", -1), st |-> st]
      ELSE [res |-> Ok, st |-> [h \in DOMAIN st \ {hash} |-> st[h]]]

\* validate_file
validate_file(st, hash, num_chunks) ==
    LET stored == IF num_chunks # None
                    THEN store_meta(st, hash, Meta(CHOOSE n \in num_chunks : TRUE, None, None))
                    ELSE st
        m == load_meta(stored, hash)
    IN  IF num_chunks = None /\ m.res # Ok
          THEN [res |-> m.res, st |-> st, complete |-> FALSE, ranges |-> <<>>]
          ELSE LET v == MissingRanges(DOMAIN stored[hash].chunks, m.meta.num_chunks)
               IN  [res |-> Ok, st |-> stored, complete |-> v.complete, ranges |-> v.ranges]

\* finalize_file: "Iterate through chunks and reassemble file", from chunk_num on
RECURSIVE ChunkLoop(_, _, _, _, _, _, _)
ChunkLoop(st, src, hash, chunk_num, num_chunks, file, load_chunk_err) ==
    IF chunk_num >= num_chunks
      THEN [st |-> st, file |-> file, err |-> load_chunk_err, returned |-> FALSE]
      ELSE LET c == load_chunk(st, src, hash, chunk_num)
               d == delete_chunk(st, hash, chunk_num)
           IN  IF c.res = Ok
                 THEN ChunkLoop(st, src, hash, chunk_num + 1, num_chunks,
                                file \o c.data, load_chunk_err)
                 ELSE IF d.res # Ok
                        THEN [st |-> st, file |-> file, err |-> Some(d.res),
                              returned |-> TRUE]
                        ELSE ChunkLoop(d.st, src, hash, chunk_num + 1, num_chunks,
                                       file, Some(c.res))

\* variant: any reassembled file is accepted
HashMatchesAlways(calc_hash_str, hash) == TRUE

\* `if calc_hash_str == hash`
HashMatches(calc_hash_str, hash) == calc_hash_str = hash

NoTarget == [exists |-> FALSE, data |-> <<>>]

\* finalize_file
finalize_file(st, src, tgt, hash) ==
    LET v == validate_file(st, hash, None)
        m == load_meta(st, hash)
        loop == ChunkLoop(st, src, hash, 0, m.meta.num_chunks, <<>>, None)
        written == [exists |-> TRUE, data |-> loop.file]
    IN  IF v.res # Ok THEN [res |-> v.res, st |-> st, tgt |-> tgt]
        ELSE IF ~v.complete THEN [res |-> FinalizeError, st |-> st, tgt |-> tgt]
        ELSE IF loop.err # None
          THEN [res |-> CHOOSE e \in loop.err : TRUE, st |-> loop.st, tgt |-> written]
        ELSE IF HashMatches(calc_file_hash(loop.file), hash)
          THEN [res |-> Ok, st |-> loop.st, tgt |-> written]
          ELSE [res |-> HashMismatch, st |-> delete_file(loop.st, hash).st, tgt |-> written]

\* initialize_file on the source file
initialize_file(st, src, transfer_chunk_size) ==
    store_meta(st, calc_file_hash(src),
               Meta(NumChunks(Len(src), transfer_chunk_size),
                    Some(transfer_chunk_size), Some("source")))

\* what the last call returned
Result(op, hash, res) ==
    [op |-> op, hash |-> hash, kind |-> res.kind, action |-> res.action,
     index |-> res.index, complete |-> FALSE, ranges |-> <<>>, data |-> <<>>]

\* the hash directories calls are made on: the one of the source file and
\* one of another transfer
OtherHash(src) == (calc_file_hash(src) + 1) % HashSpace
Hashes(src) == {calc_file_hash(src), OtherHash(src)}

StInit ==
    /\ source \in Files
    /\ storage = <<>>
    /\ target = NoTarget
    /\ result = Result("none", 0, Ok)

StInitializeFile ==
    /\ storage' = initialize_file(storage, source, ChunkSize)
    /\ result' = [Result("initialize_file", calc_file_hash(source), Ok)
                    EXCEPT !.index = NumChunks(Len(source), ChunkSize)]
    /\ UNCHANGED <<source, target>>
    /\ UNCHANGED <<sch_vars, ext_vars, sc_vars, telem, errors, rd_vars, dl_vars, vf_vars, sm_vars>>

StStoreChunk(hash, index, data) ==
    /\ storage' = store_chunk(storage, hash, index, data)
    /\ result' = Result("store_chunk", hash, Ok)
    /\ UNCHANGED <<source, target>>
    /\ UNCHANGED <<sch_vars, ext_vars, sc_vars, telem, errors, rd_vars, dl_vars, vf_vars, sm_vars>>

StValidateFile(hash, num_chunks) ==
    LET v == validate_file(storage, hash, num_chunks)
    IN  /\ storage' = v.st
        /\ result' = [Result("validate_file", hash, v.res)
                        EXCEPT !.complete = v.complete, !.ranges = v.ranges]
        /\ UNCHANGED <<source, target>>
        /\ UNCHANGED <<sch_vars, ext_vars, sc_vars, telem, errors, rd_vars, dl_vars, vf_vars, sm_vars>>

StFinalizeFile(hash) ==
    LET f == finalize_file(storage, source, target, hash)
    IN  /\ storage' = f.st
        /\ target' = f.tgt
        /\ result' = Result("finalize_file", hash, f.res)
        /\ UNCHANGED source
        /\ UNCHANGED <<sch_vars, ext_vars, sc_vars, telem, errors, rd_vars, dl_vars, vf_vars, sm_vars>>

StDeleteFile(hash) ==
    LET d == delete_file(storage, hash)
    IN  /\ storage' = d.st
        /\ result' = Result("delete_file", hash, d.res)
        /\ UNCHANGED <<source, target>>
        /\ UNCHANGED <<sch_vars, ext_vars, sc_vars, telem, errors, rd_vars, dl_vars, vf_vars, sm_vars>>

\* load_chunk: the bytes it returns are kept with the result
StLoadChunk(hash, index) ==
    LET c == load_chunk(storage, source, hash, index)
    IN  /\ result' = [Result("load_chunk", hash, c.res)
                        EXCEPT !.index = index, !.data = c.data]
        /\ UNCHANGED <<source, storage, target>>
        /\ UNCHANGED <<sch_vars, ext_vars, sc_vars, telem, errors, rd_vars, dl_vars, vf_vars, sm_vars>>

\* the medium starts to fail reads of one chunk file, whose content is
\* out of reach from then on
StReadFault(hash, index) ==
    /\ hash \in DOMAIN storage
    /\ index \in DOMAIN storage[hash].chunks
    /\ storage[hash].chunks[index].readable
    /\ storage' = [storage EXCEPT ![hash].chunks[index] =
                                      [data |-> <<>>, readable |-> FALSE]]
    /\ result' = Result("read_fault", hash, Ok)
    /\ UNCHANGED <<source, target>>
    /\ UNCHANGED <<sch_vars, ext_vars, sc_vars, telem, errors, rd_vars, dl_vars, vf_vars, sm_vars>>

\* calls are made on the hash directory of the source file; another
\* transfer stages and deletes a chunk under another hash
StNext ==
    \/ StInitializeFile
    \/ \E index \in ChunkIdx :
          \E data \in {SeekTake(source, ChunkSize, index),
                       Tamper(SeekTake(source, ChunkSize, index))} :
              StStoreChunk(calc_file_hash(source), index, data)
    \/ StStoreChunk(OtherHash(source), 0, <<0>>)
    \/ \E num_chunks \in {None, Some(NumChunks(Len(source), ChunkSize))} :
          StValidateFile(calc_file_hash(source), num_chunks)
    \/ StFinalizeFile(calc_file_hash(source))
    \/ \E hash \in Hashes(source) : StDeleteFile(hash)
    \/ \E hash \in Hashes(source), index \in ChunkIdx : StLoadChunk(hash, index)
    \/ \E index \in ChunkIdx : StReadFault(calc_file_hash(source), index)

InitStorage == TelemInit /\ RdInit /\ DlInit /\ VfIdle /\ StInit /\ SmIdle /\ ScIdle /\ SchIdle /\ ExtIdle

SpecStorage == InitStorage /\ [][StNext]_vars

\* ------------------------------------ storage: store_meta, step by step
\* One hash directory seen at the level of directory entries and the files
\* they name: store_meta's File::create, write_all and rename are separate
\* steps, the calling process can stop between any two of them, and a
\* load_meta runs beside it.

\* file_dir.join("meta")
meta_path == "meta"

\* variant: the document is written straight to the meta file
temp_path_is_meta == "meta"

\* file_dir.join(".meta.tmp")
temp_path == ".meta.tmp"

\* the metadata store_meta is called with
MetaArgs ==
    {Meta(n, None, None) : n \in 1..MaxStoreCalls}
    \cup {Meta(n, Some(ChunkSize), Some("source")) : n \in 1..MaxStoreCalls}

\* no file under a name, no metadata loaded
NoFile == 0
NoMeta == Meta(0, None, None)

\* the file a name of the directory leads to
FileAt(dir, files, name) ==
    IF dir[name] = NoFile
      THEN [exists |-> FALSE, doc |-> <<>>]
      ELSE [exists |-> TRUE, doc |-> files[dir[name]]]

\* fs::rename(from, to)
Rename(dir, from, to) ==
    IF from = to THEN dir ELSE [dir EXCEPT ![to] = dir[from], ![from] = NoFile]

SmInit ==
    /\ sm_pc = "idle"
    /\ sm_args = NoMeta
    /\ sm_vec = <<>>
    /\ sm_prev = [exists |-> FALSE, doc |-> <<>>]
    /\ sm_committed = {}
    /\ sm_dir = [name \in {meta_path, temp_path} |-> NoFile]
    /\ sm_files = <<>>
    /\ sm_calls = 0
    /\ sm_ret = "none"
    /\ ld_pc = "idle"
    /\ ld_fd = NoFile
    /\ ld_ret = [kind |-> "none", meta |-> NoMeta]

\* store_meta is entered: `let vec = to_vec(&data)?`, create_dir_all
SmCall(meta) ==
    /\ sm_pc = "idle"
    /\ sm_calls < MaxStoreCalls
    /\ sm_calls' = sm_calls + 1
    /\ sm_args' = meta
    /\ sm_vec' = to_vec(meta)
    /\ sm_prev' = FileAt(sm_dir, sm_files, meta_path)
    /\ sm_pc' = "create"
    /\ UNCHANGED <<sm_committed, sm_dir, sm_files, sm_ret, ld_pc, ld_fd, ld_ret>>
    /\ UNCHANGED <<sch_vars, ext_vars, sc_vars, telem, errors, rd_vars, dl_vars, vf_vars, st_vars>>

\* File::create(&temp_path): a new empty file, or the old one truncated
SmCreate ==
    /\ sm_pc = "create"
    /\ IF sm_dir[temp_path] = NoFile
         THEN /\ sm_files' = Append(sm_files, <<>>)
              /\ sm_dir' = [sm_dir EXCEPT ![temp_path] = Len(sm_files) + 1]
         ELSE /\ sm_files' = [sm_files EXCEPT ![sm_dir[temp_path]] = <<>>]
              /\ UNCHANGED sm_dir
    /\ sm_pc' = "write"
    /\ UNCHANGED <<sm_args, sm_vec, sm_prev, sm_committed, sm_calls, sm_ret,
                   ld_pc, ld_fd, ld_ret>>
    /\ UNCHANGED <<sch_vars, ext_vars, sc_vars, telem, errors, rd_vars, dl_vars, vf_vars, st_vars>>

\* write_all(&vec): the document reaches the file piece by piece
SmWrite ==
    /\ sm_pc = "write"
    /\ LET f == sm_dir[temp_path]
           n == Len(sm_files[f])
       IN  /\ sm_files' = [sm_files EXCEPT ![f] = Append(@, sm_vec[n + 1])]
           /\ sm_pc' = IF n + 1 = Len(sm_vec) THEN "rename" ELSE "write"
    /\ UNCHANGED <<sm_args, sm_vec, sm_prev, sm_committed, sm_dir, sm_calls,
                   sm_ret, ld_pc, ld_fd, ld_ret>>
    /\ UNCHANGED <<sch_vars, ext_vars, sc_vars, telem, errors, rd_vars, dl_vars, vf_vars, st_vars>>

\* fs::rename(temp_path, meta_path), then Ok(())
SmRename ==
    /\ sm_pc = "rename"
    /\ sm_dir' = Rename(sm_dir, temp_path, meta_path)
    /\ sm_committed' = sm_committed \cup {sm_args}
    /\ sm_pc' = "idle"
    /\ sm_ret' = "Ok"
    /\ UNCHANGED <<sm_args, sm_vec, sm_prev, sm_files, sm_calls, ld_pc, ld_fd, ld_ret>>
    /\ UNCHANGED <<sch_vars, ext_vars, sc_vars, telem, errors, rd_vars, dl_vars, vf_vars, st_vars>>

\* the call ends before its next step: the step fails and `?` returns the
\* StorageError, or the process crashes
SmStop(ret) ==
    /\ sm_pc \in {"create", "write", "rename"}
    /\ sm_pc' = "idle"
    /\ sm_ret' = ret
    /\ UNCHANGED <<sm_args, sm_vec, sm_prev, sm_committed, sm_dir, sm_files,
                   sm_calls, ld_pc, ld_fd, ld_ret>>
    /\ UNCHANGED <<sch_vars, ext_vars, sc_vars, telem, errors, rd_vars, dl_vars, vf_vars, st_vars>>

\* load_meta: File::open(meta_path)
LdOpen ==
    /\ ld_pc = "idle"
    /\ IF sm_dir[meta_path] = NoFile
         THEN /\ ld_ret' = [kind |-> "StorageError", meta |-> NoMeta]
              /\ UNCHANGED <<ld_pc, ld_fd>>
         ELSE /\ ld_fd' = sm_dir[meta_path]
              /\ ld_pc' = "opened"
              /\ UNCHANGED ld_ret
    /\ UNCHANGED <<sm_pc, sm_args, sm_vec, sm_prev, sm_committed, sm_dir,
                   sm_files, sm_calls, sm_ret>>
    /\ UNCHANGED <<sch_vars, ext_vars, sc_vars, telem, errors, rd_vars, dl_vars, vf_vars, st_vars>>

\* load_meta: read_to_end on the open file, de::from_slice
LdRead ==
    /\ ld_pc = "opened"
    /\ ld_ret' = IF Parses(sm_files[ld_fd])
                   THEN [kind |-> "Ok", meta |-> from_slice(sm_files[ld_fd])]
                   ELSE [kind |-> "StorageParseError", meta |-> NoMeta]
    /\ ld_pc' = "idle"
    /\ UNCHANGED ld_fd
    /\ UNCHANGED <<sm_pc, sm_args, sm_vec, sm_prev, sm_committed, sm_dir,
                   sm_files, sm_calls, sm_ret>>
    /\ UNCHANGED <<sch_vars, ext_vars, sc_vars, telem, errors, rd_vars, dl_vars, vf_vars, st_vars>>

SmNext ==
    \/ \E meta \in MetaArgs : SmCall(meta)
    \/ SmCreate
    \/ SmWrite
    \/ SmRename
    \/ \E ret \in {"StorageError", "crashed"} : SmStop(ret)
    \/ LdOpen
    \/ LdRead

InitStoreMeta == TelemInit /\ RdInit /\ DlInit /\ VfIdle /\ StIdle /\ SmInit /\ ScIdle /\ SchIdle /\ ExtIdle

SpecStoreMeta == InitStoreMeta /\ [][SmNext]_vars

\* ========================================================== scheduler start
\* services/scheduler-service/src/scheduler.rs, task_list.rs

\* pub const SAFE_MODE
SAFE_MODE == "safe"
\* the mode directories under the scheduler root, and no active mode
Modes == {SAFE_MODE, "ops"}
NoMode == "none"

\* what a task list file can hold: tasks that validate, a task whose time
\* is out of bounds (TaskTimeError), text that does not parse, a task that
\* fails validation otherwise
ListKinds == {"good", "late", "unparsable", "invalid"}

\* the ways a mode directory can be filled, its files in sorted order
ModeDirs == UNION {[1..n -> ListKinds] : n \in 0..MaxLists}

\* TaskList::from_path fails on a file
FromPathFails(kind) == kind = "unparsable"

\* get_mode_task_lists: every file of the directory goes through
\* TaskList::from_path, the first failure is returned
GetModeTaskListsFails(lists) == \E i \in DOMAIN lists : FromPathFails(lists[i])

\* validate_task_list returns an error: TaskTimeError is mapped to Ok
ValidateFails(kind) == FromPathFails(kind) \/ kind = "invalid"

\* variant: every mode is treated like safe
IsSafeAlways(name) == TRUE

\* `if active_mode.name == SAFE_MODE`
IsSafe(name) == name = SAFE_MODE

\* list.filename of the i-th file of a mode directory
Filename(i) == i

\* mode.rs: activate_mode makes an existing mode the active one
activate_mode(name) == name

ScInit ==
    /\ sc_modes \in [Modes -> ModeDirs]
    /\ sc_active \in Modes \cup {NoMode}
    /\ sc_entry = sc_active
    /\ sc_pc = "start"
    /\ sc_k = 1
    /\ sc_map = <<>>
    /\ sc_started = {}
    /\ sc_signalled = {}

\* start(): get_active_mode; check_start: get_mode_task_lists
ScStart ==
    /\ sc_pc = "start"
    /\ sc_pc' = IF sc_active = NoMode THEN "panicked"
                ELSE IF GetModeTaskListsFails(sc_modes[sc_active]) THEN "failed"
                ELSE "lists"
    /\ sc_k' = 1
    /\ UNCHANGED <<sc_modes, sc_active, sc_entry, sc_map, sc_started, sc_signalled>>
    /\ UNCHANGED <<telem, errors, rd_vars, dl_vars, fp_vars, sch_vars, ext_vars>>

\* check_start: one turn of the loop, validate_task_list fails
ScInvalid ==
    /\ sc_pc = "lists"
    /\ sc_k <= Len(sc_modes[sc_active])
    /\ ValidateFails(sc_modes[sc_active][sc_k])
    /\ sc_pc' = "failed"
    /\ UNCHANGED <<sc_modes, sc_active, sc_entry, sc_k, sc_map, sc_started, sc_signalled>>
    /\ UNCHANGED <<telem, errors, rd_vars, dl_vars, fp_vars, sch_vars, ext_vars>>

\* check_start: one turn of the loop, start_task_list schedules the tasks
\* and records the handle under the list's file name
ScStartList ==
    /\ sc_pc = "lists"
    /\ sc_k <= Len(sc_modes[sc_active])
    /\ ~ValidateFails(sc_modes[sc_active][sc_k])
    /\ sc_started' = sc_started \cup {<<sc_active, sc_k>>}
    /\ sc_map' = [f \in DOMAIN sc_map \cup {Filename(sc_k)} |->
                    IF f = Filename(sc_k) THEN sc_active ELSE sc_map[f]]
    /\ sc_k' = sc_k + 1
    /\ UNCHANGED <<sc_modes, sc_active, sc_entry, sc_pc, sc_signalled>>
    /\ UNCHANGED <<telem, errors, rd_vars, dl_vars, fp_vars, sch_vars, ext_vars>>

\* check_start returns Ok(()), and so does start()
ScReturn ==
    /\ sc_pc = "lists"
    /\ sc_k > Len(sc_modes[sc_active])
    /\ sc_pc' = "returned"
    /\ UNCHANGED <<sc_modes, sc_active, sc_entry, sc_k, sc_map, sc_started, sc_signalled>>
    /\ UNCHANGED <<telem, errors, rd_vars, dl_vars, fp_vars, sch_vars, ext_vars>>

\* check_start returned an error for the safe mode: panic!
ScPanic ==
    /\ sc_pc = "failed"
    /\ IsSafe(sc_active)
    /\ sc_pc' = "panicked"
    /\ UNCHANGED <<sc_modes, sc_active, sc_entry, sc_k, sc_map, sc_started, sc_signalled>>
    /\ UNCHANGED <<telem, errors, rd_vars, dl_vars, fp_vars, sch_vars, ext_vars>>

\* check_start returned an error for another mode: activate_mode(SAFE_MODE),
\* self.start()
ScFailOver ==
    /\ sc_pc = "failed"
    /\ ~IsSafe(sc_active)
    /\ sc_active' = activate_mode(SAFE_MODE)
    /\ sc_pc' = "start"
    /\ UNCHANGED <<sc_modes, sc_entry, sc_k, sc_map, sc_started, sc_signalled>>
    /\ UNCHANGED <<telem, errors, rd_vars, dl_vars, fp_vars, sch_vars, ext_vars>>

\* stop(): `schedules_map.drain().take(1)` yields at most one entry of the
\* map, in the order of the HashMap, which is any order; the sets of
\* handles that can get `handle.stopper.send(())`
StoppedHandles(map) ==
    IF DOMAIN map = {} THEN {{}} ELSE {{f} : f \in DOMAIN map}

\* stop() after start() returned: the chosen handle is sent the signal, the
\* Drain is dropped and takes the other entries out of the map unsignalled
ScStop ==
    /\ sc_pc = "returned"
    /\ sc_signalled' \in StoppedHandles(sc_map)
    /\ sc_map' = <<>>
    /\ sc_pc' = "stopped"
    /\ UNCHANGED <<sc_modes, sc_active, sc_entry, sc_k, sc_started>>
    /\ UNCHANGED <<telem, errors, rd_vars, dl_vars, fp_vars, sch_vars, ext_vars>>

ScNext ==
    \/ ScStart \/ ScInvalid \/ ScStartList \/ ScReturn \/ ScPanic \/ ScFailOver
    \/ ScStop

InitScheduler == TelemInit /\ RdInit /\ DlInit /\ FpIdle /\ ScInit /\ SchIdle /\ ExtIdle

SpecScheduler == InitScheduler /\ [][ScNext]_vars

\* start() runs on its thread until it returns or panics
FairSpecScheduler == SpecScheduler /\ WF_vars(ScNext)

\* =========================================================== scheduler init
\* services/scheduler-service/src/scheduler.rs, with mode.rs as the
\* specification describes it

\* the names a mode directory or the active marker can have
ModeNames == {SAFE_MODE, "ops", "science"}

\* mode.rs: get_active_mode is Ok(Some(mode)) when the marker names a mode
\* that exists, Ok(None) when there is no marker, an error otherwise
get_active_mode(modes, link) ==
    IF link = NoMode THEN [kind |-> "Ok", mode |-> {}]
    ELSE IF link \in modes THEN [kind |-> "Ok", mode |-> {link}]
    ELSE [kind |-> "Err", mode |-> {}]

\* mode.rs: get_available_modes(dir, Some(name)) lists the modes of that name
get_available_modes(modes, name) == modes \cap {name}

\* variant: any Ok of get_active_mode counts as an active mode
ActiveFoundAnyOk(r) == r.kind = "Ok"

\* `Ok(Some(_)) => {}`
ActiveFound(r) == r.kind = "Ok" /\ r.mode # {}

\* the disk before init(): no root and nothing in it, or a root with any
\* mode directories and any marker
InInit ==
    /\ init_pc = "dir"
    /\ scheduler_dir \in BOOLEAN
    /\ mode_dirs \in (IF scheduler_dir THEN SUBSET ModeNames ELSE {{}})
    /\ active_link \in (IF scheduler_dir THEN ModeNames \cup {NoMode} ELSE {NoMode})
    /\ init_entry = [active |-> active_link, modes |-> mode_dirs]
    /\ init_ret = "none"

\* `if !Path::new(&self.scheduler_dir).is_dir()`: fs::create_dir, which can
\* fail
InitDir ==
    /\ init_pc = "dir"
    /\ \E ok \in BOOLEAN :
        IF scheduler_dir
        THEN /\ ok
             /\ init_pc' = "active"
             /\ UNCHANGED <<scheduler_dir, init_ret>>
        ELSE IF ok
        THEN /\ scheduler_dir' = TRUE
             /\ init_pc' = "active"
             /\ UNCHANGED init_ret
        ELSE /\ init_pc' = "done"
             /\ init_ret' = "CreateError"
             /\ UNCHANGED scheduler_dir
    /\ UNCHANGED <<mode_dirs, active_link, init_entry>>
    /\ UNCHANGED <<telem, errors, rd_vars, dl_vars, fp_vars, sc_vars, hms_vars, ta_vars, tk_vars, ext_vars>>

\* `match get_active_mode(&self.scheduler_dir)`
InitActive ==
    /\ init_pc = "active"
    /\ IF ActiveFound(get_active_mode(mode_dirs, active_link))
       THEN init_pc' = "done" /\ init_ret' = "Ok"
       ELSE init_pc' = "available" /\ UNCHANGED init_ret
    /\ UNCHANGED <<scheduler_dir, mode_dirs, active_link, init_entry>>
    /\ UNCHANGED <<telem, errors, rd_vars, dl_vars, fp_vars, sc_vars, hms_vars, ta_vars, tk_vars, ext_vars>>

\* `match get_available_modes(.., Some(SAFE_MODE))`: a list that is not
\* empty means safe exists
InitAvailable ==
    /\ init_pc = "available"
    /\ init_pc' = IF get_available_modes(mode_dirs, SAFE_MODE) # {}
                  THEN "activate" ELSE "create"
    /\ UNCHANGED <<scheduler_dir, mode_dirs, active_link, init_entry, init_ret>>
    /\ UNCHANGED <<telem, errors, rd_vars, dl_vars, fp_vars, sc_vars, hms_vars, ta_vars, tk_vars, ext_vars>>

\* `create_mode(&self.scheduler_dir, SAFE_MODE)?`
InitCreate ==
    /\ init_pc = "create"
    /\ \E ok \in BOOLEAN :
        IF ok /\ SAFE_MODE \notin mode_dirs
        THEN /\ mode_dirs' = mode_dirs \cup {SAFE_MODE}
             /\ init_pc' = "activate"
             /\ UNCHANGED init_ret
        ELSE /\ init_pc' = "done"
             /\ init_ret' = "Err"
             /\ UNCHANGED mode_dirs
    /\ UNCHANGED <<scheduler_dir, active_link, init_entry>>
    /\ UNCHANGED <<telem, errors, rd_vars, dl_vars, fp_vars, sc_vars, hms_vars, ta_vars, tk_vars, ext_vars>>

\* `activate_mode(&self.scheduler_dir, SAFE_MODE)?; Ok(())`
InitActivate ==
    /\ init_pc = "activate"
    /\ \E ok \in BOOLEAN :
        IF ok /\ SAFE_MODE \in mode_dirs
        THEN /\ active_link' = activate_mode(SAFE_MODE)
             /\ init_ret' = "Ok"
        ELSE /\ init_ret' = "Err"
             /\ UNCHANGED active_link
    /\ init_pc' = "done"
    /\ UNCHANGED <<scheduler_dir, mode_dirs, init_entry>>
    /\ UNCHANGED <<telem, errors, rd_vars, dl_vars, fp_vars, sc_vars, hms_vars, ta_vars, tk_vars, ext_vars>>

InNext == InitDir \/ InitActive \/ InitAvailable \/ InitCreate \/ InitActivate

InitSchedInit ==
    TelemInit /\ RdInit /\ DlInit /\ FpIdle /\ ScIdle /\ InInit /\ HmsIdle /\ TaIdle /\ TkIdle /\ ExtIdle

SpecSchedInit == InitSchedInit /\ [][InNext]_vars

\* ======================================================== parse_hms_field
\* services/scheduler-service/src/task.rs

\* the characters a field is written with, a string being the sequence of
\* its characters
DigitChars == <<"0", "1", "2", "3", "4", "5", "6", "7", "8", "9">>
IsDigit(c) == \E i \in DOMAIN DigitChars : DigitChars[i] = c
DigitValue(c) == (CHOOSE i \in DOMAIN DigitChars : DigitChars[i] = c) - 1

\* a 64-bit integer is held as four 16-bit limbs, the lowest first
LimbBase == 65536
Zero64 == <<0, 0, 0, 0>>
One64 == <<1, 0, 0, 0>>

\* the limbs of x * k + c from limb i on, followed by the carry out
RECURSIVE MulAddFrom(_, _, _, _)
MulAddFrom(x, k, c, i) ==
    IF i > Len(x) THEN <<c>>
    ELSE LET t == x[i] * k + c
         IN  <<t % LimbBase>> \o MulAddFrom(x, k, t \div LimbBase, i + 1)

\* the limbs of x + y + c from limb i on, followed by the carry out
RECURSIVE AddFrom(_, _, _, _)
AddFrom(x, y, c, i) ==
    IF i > Len(x) THEN <<c>>
    ELSE LET t == x[i] + y[i] + c
         IN  <<t % LimbBase>> \o AddFrom(x, y, t \div LimbBase, i + 1)

Low(w) == SubSeq(w, 1, Len(w) - 1)
Carry(w) == w[Len(w)]

\* the sign bit of an i64, and its magnitude when it is negative
IsNegative(x) == x[Len(x)] >= LimbBase \div 2
Negate(x) == Low(AddFrom([i \in DOMAIN x |-> LimbBase - 1 - x[i]], Zero64, 1, 1))

\* x < y for unsigned values; x <= y for signed ones
RECURSIVE UnsignedLess(_, _, _)
UnsignedLess(x, y, i) ==
    IF i = 0 THEN FALSE
    ELSE IF x[i] # y[i] THEN x[i] < y[i]
    ELSE UnsignedLess(x, y, i - 1)

SignedLeq(x, y) ==
    IF IsNegative(x) # IsNegative(y) THEN IsNegative(x)
    ELSE ~UnsignedLess(y, x, Len(x))

\* `a * k` on i64 with k > 0: the wrapped product, and whether the exact
\* product is out of the range of i64
WrappingMul(a, k) ==
    LET w == MulAddFrom(a, k, 0, 1)
        m == MulAddFrom(Negate(a), k, 0, 1)
    IN  [bits |-> Low(w),
         overflow |-> IF IsNegative(a)
                      THEN Carry(m) # 0
                           \/ (IsNegative(Low(m)) /\ Low(m) # <<0, 0, 0, LimbBase \div 2>>)
                      ELSE Carry(w) # 0 \/ IsNegative(Low(w))]

\* `a + b` on i64: the wrapped sum, and whether the exact sum is out of range
WrappingAdd(a, b) ==
    LET s == Low(AddFrom(a, b, 0, 1))
    IN  [bits |-> s,
         overflow |-> IsNegative(a) = IsNegative(b) /\ IsNegative(s) # IsNegative(a)]

\* str::parse::<u64>: an optional '+', then at least one digit, the value
\* at most u64::MAX; None otherwise
RECURSIVE ParseDigits(_, _, _)
ParseDigits(str, i, acc) ==
    IF i > Len(str) THEN {acc}
    ELSE IF ~IsDigit(str[i]) THEN {}
    ELSE LET w == MulAddFrom(acc, 10, DigitValue(str[i]), 1)
         IN  IF Carry(w) # 0 THEN {} ELSE ParseDigits(str, i + 1, Low(w))

\* variant: a sign is no part of a number
ParseU64Unsigned(str) ==
    IF str = <<>> THEN {} ELSE ParseDigits(str, 1, Zero64)

ParseU64(str) ==
    LET digits == IF str # <<>> /\ str[1] = "+" THEN Tail(str) ELSE str
    IN  IF digits = <<>> THEN {} ELSE ParseDigits(digits, 1, Zero64)

\* field.split(' '): the parts between the spaces, one part at least
RECURSIVE Split(_, _)
Split(str, part) ==
    IF str = <<>> THEN <<part>>
    ELSE IF Head(str) = " " THEN <<part>> \o Split(Tail(str), <<>>)
    ELSE Split(Tail(str), Append(part, Head(str)))

\* part.pop(): the last character, None on an empty part, and what is left
PopChar(part) == IF part = <<>> THEN {} ELSE {part[Len(part)]}
PopRest(part) == IF part = <<>> THEN <<>> ELSE SubSeq(part, 1, Len(part) - 1)

HmsParseError(description) ==
    [kind |-> "HmsParseError", description |-> description, secs |-> Zero64]
Panicked == [kind |-> "panic", description |-> "", secs |-> Zero64]

\* chrono Duration::seconds: the largest number of seconds it takes,
\* i64::MAX / 1000; it panics beyond it on either side
MaxSeconds == <<21495, 42467, 50331, 32>>
DurationSeconds(duration) ==
    IF SignedLeq(duration, MaxSeconds) /\ SignedLeq(Negate(MaxSeconds), duration)
    THEN [kind |-> "Ok", description |-> "", secs |-> duration]
    ELSE Panicked

\* the factors a unit multiplies the number with, one `*` each
UnitFactors(unit) ==
    IF unit = {"s"} THEN <<>>
    ELSE IF unit = {"m"} THEN <<60>>
    ELSE IF unit = {"h"} THEN <<60, 60>>
    ELSE <<0>>

\* `num as i64 * 60 * 60`
RECURSIVE Times(_, _)
Times(a, factors) ==
    IF factors = <<>> THEN [bits |-> a, overflow |-> FALSE]
    ELSE LET p == WrappingMul(a, Head(factors))
             r == Times(p.bits, Tail(factors))
         IN  [bits |-> r.bits, overflow |-> p.overflow \/ r.overflow]

\* the loop of parse_hms_field over the parts that are left; an arithmetic
\* overflow panics in a build with overflow checks and wraps in one without
RECURSIVE HmsLoop(_, _, _)
HmsLoop(field_parts, duration, overflow_checks) ==
    IF field_parts = <<>> THEN DurationSeconds(duration)
    ELSE LET part == Head(field_parts)
             unit == PopChar(part)
             num == ParseU64(PopRest(part))
         IN  IF num = {} THEN HmsParseError("Failed to parse number")
             ELSE IF unit \notin {{"s"}, {"m"}, {"h"}}
             THEN HmsParseError("Found invalid unit")
             ELSE LET n == CHOOSE v \in num : TRUE
                      p == Times(n, UnitFactors(unit))
                      s == WrappingAdd(duration, p.bits)
                  IN  IF overflow_checks /\ (p.overflow \/ s.overflow)
                      THEN Panicked
                      ELSE HmsLoop(Tail(field_parts), s.bits, overflow_checks)

parse_hms_field(str, overflow_checks) ==
    LET field_parts == Split(str, <<>>)
    IN  IF field_parts = <<>> THEN HmsParseError("No parts found")
        ELSE HmsLoop(field_parts, Zero64, overflow_checks)

\* --- the fields the function is applied to
\* the characters of a number given by its decimal digits
RECURSIVE Chars(_)
Chars(ds) == IF ds = <<>> THEN <<>> ELSE <<DigitChars[Head(ds) + 1]>> \o Chars(Tail(ds))

\* parts joined by single spaces
RECURSIVE Join(_)
Join(parts) ==
    IF parts = <<>> THEN <<>>
    ELSE IF Len(parts) = 1 THEN parts[1]
    ELSE parts[1] \o <<" ">> \o Join(Tail(parts))

\* what stands before the unit of a part, and the units
NumberTexts == {<<>>, <<"1">>, <<"2", "5">>, <<"+", "3">>, <<"-", "1">>}
UnitTexts == {<<"h">>, <<"m">>, <<"s">>, <<"d">>}
SmallParts == {n \o u : n \in NumberTexts, u \in UnitTexts} \cup {<<>>, <<"7">>}

\* numbers at the edges of u64, of i64 and of what Duration::seconds takes
I64Max == Chars(<<9, 2, 2, 3, 3, 7, 2, 0, 3, 6, 8, 5, 4, 7, 7, 5, 8, 0, 7>>)
I64MaxPlus1 == Chars(<<9, 2, 2, 3, 3, 7, 2, 0, 3, 6, 8, 5, 4, 7, 7, 5, 8, 0, 8>>)
U64Max == Chars(<<1, 8, 4, 4, 6, 7, 4, 4, 0, 7, 3, 7, 0, 9, 5, 5, 1, 6, 1, 5>>)
U64MaxPlus1 == Chars(<<1, 8, 4, 4, 6, 7, 4, 4, 0, 7, 3, 7, 0, 9, 5, 5, 1, 6, 1, 6>>)
SecondsMax == Chars(<<9, 2, 2, 3, 3, 7, 2, 0, 3, 6, 8, 5, 4, 7, 7, 5>>)
SecondsMaxPlus1 == Chars(<<9, 2, 2, 3, 3, 7, 2, 0, 3, 6, 8, 5, 4, 7, 7, 6>>)
HoursMax == Chars(<<2, 5, 6, 2, 0, 4, 7, 7, 8, 8, 0, 1, 5, 2, 1, 5>>)
HoursOver == Chars(<<2, 5, 6, 2, 0, 4, 7, 7, 8, 8, 0, 1, 5, 2, 1, 6>>)
MinutesOver == Chars(<<1, 5, 3, 7, 2, 2, 8, 6, 7, 2, 8, 0, 9, 1, 2, 9, 3, 1>>)
HoursWrap == Chars(<<1, 1, 5, 2, 9, 2, 1, 5, 0, 4, 6, 0, 6, 8, 4, 6, 9, 7, 6>>)
LargeParts ==
    {n \o <<"s">> : n \in {I64Max, I64MaxPlus1, U64Max, U64MaxPlus1, SecondsMax,
                           SecondsMaxPlus1}}
    \cup {HoursMax \o <<"h">>, HoursOver \o <<"h">>, MinutesOver \o <<"m">>,
          HoursWrap \o <<"h">>}

HmsFields ==
    {Join(ps) : ps \in UNION {[1..n -> SmallParts] : n \in 0..MaxParts}}
    \cup {Join(<<p>>) : p \in LargeParts}
    \cup {Join(<<p, q>>) : p \in LargeParts, q \in {<<"1", "s">>, <<"1", "h">>}}

HmsInit ==
    /\ hms_pc = "call"
    /\ field \in HmsFields
    /\ hms_ret = [kind |-> "none", description |-> "", secs |-> Zero64]

\* one call of parse_hms_field(field), in either build
HmsParse ==
    /\ hms_pc = "call"
    /\ \E overflow_checks \in BOOLEAN :
          hms_ret' = parse_hms_field(field, overflow_checks)
    /\ hms_pc' = "done"
    /\ UNCHANGED field
    /\ UNCHANGED <<telem, errors, rd_vars, dl_vars, fp_vars, sc_vars, in_vars, ta_vars, tk_vars, ext_vars>>

HmsNext == HmsParse

InitHms ==
    TelemInit /\ RdInit /\ DlInit /\ FpIdle /\ ScIdle /\ InIdle /\ HmsInit /\ TaIdle /\ TkIdle /\ ExtIdle

SpecHms == InitHms /\ [][HmsNext]_vars

\* ================================ get_absolute, get_period, validate_task_list
\* services/scheduler-service/src/task.rs, task_list.rs

\* `chrono::Duration::days(90)`
MaxDaysAhead == 90

\* an instant is a number of clock ticks since day 0, a time field
\* <<day, hh, mm, ss>> stands for the text "yyyy-mm-dd hh:mm:ss"
DayTicks(days) == days * 86400 * TicksPerSecond

\* Utc.datetime_from_str(&time, "%Y-%m-%d %H:%M:%S"): the instant, None
\* when the text does not parse
datetime_from_str(time) ==
    IF time[2] \in 0..23 /\ time[3] \in 0..59 /\ time[4] \in 0..59
    THEN Some(DayTicks(time[1]) + (time[2] * 3600 + time[3] * 60 + time[4]) * TicksPerSecond)
    ELSE None

\* the ticks of a Duration of fewer than 2^31 seconds
DurationTicks(secs) == (secs[1] + secs[2] * LimbBase) * TicksPerSecond

AbsOk(at) == [kind |-> "Ok", err |-> "", at |-> at]
TaskParseError(err) == [kind |-> "TaskParseError", err |-> err, at |-> 0]
TaskTimeError(err) == [kind |-> "TaskTimeError", err |-> err, at |-> 0]
NoResult == [kind |-> "none", err |-> "", at |-> 0]

\* variant: both fields set is let through
BothDefinedNever(task) == FALSE

\* `self.delay.is_some() && self.time.is_some()`
BothDefined(task) == task.delay # None /\ task.time # None

\* variant: a time equal to now is in the past
IsPastOrNow(run_time, now) == run_time <= now

\* `run_time < now`
IsPast(run_time, now) == run_time < now

\* `(run_time - now) > chrono::Duration::days(90)`
IsBeyond(run_time, now) == run_time - now > DayTicks(MaxDaysAhead)

\* Task::get_absolute with the clock reading `now`
get_absolute(task, now, overflow_checks) ==
    IF BothDefined(task) THEN TaskParseError("Both delay and time defined")
    ELSE IF task.delay # None
    THEN LET d == parse_hms_field(CHOOSE f \in task.delay : TRUE, overflow_checks)
         IN  IF d.kind = "Ok" THEN AbsOk(now + DurationTicks(d.secs))
             ELSE [kind |-> d.kind, err |-> d.description, at |-> 0]
    ELSE IF task.time # None
    THEN LET parsed == datetime_from_str(CHOOSE t \in task.time : TRUE)
             run_time == CHOOSE t \in parsed : TRUE
         IN  IF parsed = None THEN TaskParseError("Failed to parse time field")
             ELSE IF IsPast(run_time, now)
             THEN TaskTimeError("Task scheduled for past time")
             ELSE IF IsBeyond(run_time, now)
             THEN TaskTimeError("Task scheduled beyond 90 days in the future")
             ELSE AbsOk(run_time)
    ELSE TaskParseError("No delay or time defined")

\* Task::get_period: Ok(None), Ok(Some(duration)) or the error of the parser
get_period(task, overflow_checks) ==
    IF task.period = None THEN [kind |-> "Ok", period |-> None]
    ELSE LET d == parse_hms_field(CHOOSE f \in task.period : TRUE, overflow_checks)
         IN  IF d.kind = "Ok" THEN [kind |-> "Ok", period |-> Some(d.secs)]
             ELSE [kind |-> d.kind, period |-> None]

\* variant: a TaskTimeError fails the validation
PassesOnlyOk(kind) == kind = "Ok"

\* `Ok(_) => Ok(()), Err(SchedulerError::TaskTimeError { .. }) => Ok(())`
Passes(kind) == kind \in {"Ok", "TaskTimeError"}

\* validate_task_list over the tasks of a list that was read: a
\* TaskTimeError of get_absolute counts as Ok, any other error is returned,
\* and so is an error of get_period
RECURSIVE validate_task_list(_, _, _)
validate_task_list(tasks, now, overflow_checks) ==
    IF tasks = <<>> THEN [kind |-> "Ok", err |-> ""]
    ELSE LET a == get_absolute(Head(tasks), now, overflow_checks)
             p == get_period(Head(tasks), overflow_checks)
         IN  IF ~Passes(a.kind) THEN [kind |-> a.kind, err |-> a.err]
             ELSE IF p.kind # "Ok" THEN [kind |-> p.kind, err |-> "period"]
             ELSE validate_task_list(Tail(tasks), now, overflow_checks)

\* --- the tasks the functions are applied to
\* the clock reads noon of day 100 or one of the ticks of that second
Noon == DayTicks(100) + 12 * 3600 * TicksPerSecond
Clock == {Noon + k : k \in 0..(TicksPerSecond - 1)}

TimeFields == {<<d, h, m, s>> : d \in {99, 100, 190, 191}, h \in {11, 12, 24},
                               m \in {0, 60}, s \in {0, 1, 59}}
DelayFields == {<<"1", "m", " ", "5", "s">>, <<"1", "d">>}
PeriodFields == {<<"1", "h">>, <<"x">>}

Option(S) == {None} \cup {Some(x) : x \in S}

Tasks == [id : {Some(1)}, delay : Option(DelayFields), time : Option(TimeFields),
          period : Option(PeriodFields), app : {"app"}]

GoodTask == [id |-> Some(2), delay |-> Some(<<"1", "m", " ", "5", "s">>), time |-> None,
             period |-> None, app |-> "app"]
LateTask == [id |-> Some(3), delay |-> None, time |-> Some(<<99, 12, 0, 0>>),
             period |-> None, app |-> "app"]

TaInit ==
    /\ ta_task \in Tasks
    /\ ta_before \in {<<>>, <<LateTask>>}
    /\ ta_after \in {<<>>, <<GoodTask>>}
    /\ ta_now \in Clock
    /\ ta_abs = NoResult
    /\ ta_valid = [kind |-> "none", err |-> ""]

\* task.get_absolute()
TaGetAbsolute ==
    /\ ta_abs = NoResult
    /\ \E overflow_checks \in BOOLEAN :
          ta_abs' = get_absolute(ta_task, ta_now, overflow_checks)
    /\ UNCHANGED <<ta_task, ta_before, ta_after, ta_now, ta_valid>>
    /\ UNCHANGED <<telem, errors, rd_vars, dl_vars, fp_vars, sc_vars, in_vars, hms_vars, tk_vars, ext_vars>>

\* validate_task_list on the list that holds the task
TaValidate ==
    /\ ta_valid.kind = "none"
    /\ \E overflow_checks \in BOOLEAN :
          ta_valid' = validate_task_list(ta_before \o <<ta_task>> \o ta_after, ta_now,
                                         overflow_checks)
    /\ UNCHANGED <<ta_task, ta_before, ta_after, ta_now, ta_abs>>
    /\ UNCHANGED <<telem, errors, rd_vars, dl_vars, fp_vars, sc_vars, in_vars, hms_vars, tk_vars, ext_vars>>

TaNext == TaGetAbsolute \/ TaValidate

InitTaskTime ==
    TelemInit /\ RdInit /\ DlInit /\ FpIdle /\ ScIdle /\ InIdle /\ HmsIdle /\ TaInit /\ TkIdle /\ ExtIdle

SpecTaskTime == InitTaskTime /\ [][TaNext]_vars

\* ============================================== the task futures of one list
\* services/scheduler-service/src/task.rs, task_list.rs, app.rs

\* `let mut retry = 3`, `delay_for(Duration::from_secs(1))`
Retries == 3
RetryWaitSecs == 1

\* what `cmd.status().await` gives: an error, or a status whose code is
\* None (ended by a signal) or Some(code)
ExitCodes == {0, 1}
Outcomes ==
    {[kind |-> "Err", code |-> None]}
    \cup {[kind |-> "Ok", code |-> c] : c \in {None} \cup {Some(x) : x \in ExitCodes}}

\* DataPoint::now("app-exit", &format!("{}", id), code.into())
DataPoint(id, code) ==
    [subsystem |-> "app-exit", parameter |-> ToString(id), value |-> code]

\* log_status_code_to_telemetry: nothing is sent without the configuration
\* of the telemetry service, one datagram with the datapoint otherwise
log_status_code_to_telemetry(sink, config, id, code) ==
    IF config THEN sink (+) SetToBag({DataPoint(id, code)}) ELSE sink

\* `if let Some(id) = id { log_status_code_to_telemetry(id, code).await; }`
LogsCode(id, code) == id # None

\* variant: the loop never gives up
RetryExhaustedNever(retry) == FALSE

\* `if retry <= 0 { break; }`
RetryExhausted(retry) == retry <= 0

\* stop.recv() is ready: a message was sent, or the sender was dropped
StopReady(stop) == stop # "none"

\* the tasks a list is made of
OnceTask == [id |-> Some(1), delay |-> Some(<<"1", "m", " ", "5", "s">>), time |-> None,
             period |-> None, app |-> "app"]
PeriodicTask == [id |-> Some(2), delay |-> Some(<<"1", "m", " ", "5", "s">>), time |-> None,
                 period |-> Some(<<"1", "h">>), app |-> "app"]
FarTask == [id |-> Some(4), delay |-> None, time |-> Some(<<190, 12, 0, 1>>),
            period |-> None, app |-> "app"]
NoTimeTask == [id |-> Some(5), delay |-> None, time |-> None, period |-> None,
               app |-> "app"]
AnonymousTask == [id |-> None, delay |-> Some(<<"1", "m", " ", "5", "s">>), time |-> None,
                  period |-> None, app |-> "app"]
ListTasks == {OnceTask, PeriodicTask, LateTask, FarTask, NoTimeTask, AnonymousTask}
TaskLists == UNION {[1..n -> ListTasks] : n \in 1..MaxTasks}

\* a task future that was not spawned
NoFuture ==
    [pc |-> "none", abs |-> "none", periodic |-> FALSE, retry |-> 0, attempts |-> 0,
     wait |-> 0, fires |-> 0, codes |-> <<>>]

TkInit ==
    /\ tk_pc = "check"
    /\ tk_tasks \in TaskLists
    /\ tk_now = Noon
    /\ tk_config \in BOOLEAN
    /\ tk_fut = [i \in 1..MaxTasks |-> NoFuture]
    /\ tk_stop = "none"
    /\ tk_sink = EmptyBag

\* check_start: validate_task_list on the list
TkValidate ==
    /\ tk_pc = "check"
    /\ \E overflow_checks \in BOOLEAN :
          tk_pc' = IF validate_task_list(tk_tasks, tk_now, overflow_checks).kind = "Ok"
                   THEN "valid" ELSE "failed"
    /\ UNCHANGED <<tk_tasks, tk_now, tk_config, tk_fut, tk_stop, tk_sink>>
    /\ UNCHANGED <<telem, errors, rd_vars, dl_vars, fp_vars, sc_vars, in_vars, hms_vars, ta_vars, ext_vars>>

\* start_task_list, schedule_tasks: one future is spawned for each task, all
\* subscribed to the stopper of the list
TkStartList ==
    /\ tk_pc = "valid"
    /\ tk_pc' = "started"
    /\ tk_fut' = [i \in 1..MaxTasks |->
                    IF i \in DOMAIN tk_tasks THEN [NoFuture EXCEPT !.pc = "spawned"]
                    ELSE NoFuture]
    /\ UNCHANGED <<tk_tasks, tk_now, tk_config, tk_stop, tk_sink>>
    /\ UNCHANGED <<telem, errors, rd_vars, dl_vars, fp_vars, sc_vars, in_vars, hms_vars, ta_vars, ext_vars>>

\* variant: the stop branch is not looked at
PendingNoStop(pc) == pc

\* where a future goes when the poll that ran it ends: the select! takes the
\* stop branch if stop.recv() is ready
Pending(pc) == IF StopReady(tk_stop) THEN "ended" ELSE pc

\* app.execute returned: the one-shot future is done, the periodic one
\* loops to the next tick
Executed(f) == Pending(IF f.periodic THEN "timer" ELSE "ended")

\* the clock readings a first poll can see: now, or a second later
PollDelays == {0, TicksPerSecond}

\* `self.get_absolute()` and `self.get_period()` as schedule() evaluates
\* them, tabulated for the tasks of the lists and the readings of a first poll
ScheduleTimes ==
    {[task |-> t, later |-> l, overflow_checks |-> c,
      abs |-> get_absolute(t, Noon + l, c).kind,
      periodic |-> LET p == get_period(t, c) IN p.kind = "Ok" /\ p.period # None] :
        t \in ListTasks, l \in PollDelays, c \in BOOLEAN}

\* Task::schedule, first poll: get_absolute with the clock as it reads by
\* then, get_period, and the wait for the first fire
TkSchedule(i) ==
    /\ tk_fut[i].pc = "spawned"
    /\ tk_now = Noon
    /\ \E s \in ScheduleTimes :
          /\ s.task = tk_tasks[i]
          /\ tk_fut' = [tk_fut EXCEPT ![i] =
                  IF s.abs # "Ok" THEN [@ EXCEPT !.pc = "ended", !.abs = s.abs]
                  ELSE [@ EXCEPT !.pc = Pending("timer"), !.abs = s.abs,
                                 !.periodic = s.periodic]]
    /\ UNCHANGED <<tk_pc, tk_tasks, tk_now, tk_config, tk_stop, tk_sink>>
    /\ UNCHANGED <<telem, errors, rd_vars, dl_vars, fp_vars, sc_vars, in_vars, hms_vars, ta_vars, ext_vars>>

\* the timer is due and the select! polls the task branch first:
\* app.execute starts with retry = 3 and launches the app
TkFire(i) ==
    /\ tk_fut[i].pc = "timer"
    /\ tk_fut[i].fires < MaxFires
    /\ ~RetryExhausted(Retries)
    /\ tk_fut' = [tk_fut EXCEPT ![i] =
                    [@ EXCEPT !.pc = Pending("status"), !.retry = Retries, !.attempts = 1,
                              !.fires = @ + 1]]
    /\ UNCHANGED <<tk_pc, tk_tasks, tk_now, tk_config, tk_stop, tk_sink>>
    /\ UNCHANGED <<telem, errors, rd_vars, dl_vars, fp_vars, sc_vars, in_vars, hms_vars, ta_vars, ext_vars>>

\* `match cmd.status().await`: an exit code ends execute, after the
\* datapoint; no code or an error takes one retry and starts the wait
TkStatus(i) ==
    /\ tk_fut[i].pc = "status"
    /\ \E out \in Outcomes :
          IF out.kind = "Ok" /\ out.code # None
          THEN LET code == CHOOSE c \in out.code : TRUE
                   id == tk_tasks[i].id
               IN  /\ tk_sink' = IF LogsCode(id, code)
                                 THEN log_status_code_to_telemetry(
                                          tk_sink, tk_config, CHOOSE n \in id : TRUE, code)
                                 ELSE tk_sink
                   /\ tk_fut' = [tk_fut EXCEPT ![i] =
                                   [@ EXCEPT !.pc = Executed(tk_fut[i]), !.attempts = 0,
                                             !.codes = Append(@, code)]]
          ELSE /\ tk_fut' = [tk_fut EXCEPT ![i] =
                               [@ EXCEPT !.pc = Pending("delay"), !.retry = @ - 1,
                                         !.wait = RetryWaitSecs]]
               /\ UNCHANGED tk_sink
    /\ UNCHANGED <<tk_pc, tk_tasks, tk_now, tk_config, tk_stop>>
    /\ UNCHANGED <<telem, errors, rd_vars, dl_vars, fp_vars, sc_vars, in_vars, hms_vars, ta_vars, ext_vars>>

\* the delay is over, `continue`: the loop gives up with no retry left and
\* launches the app again otherwise
TkRetry(i) ==
    /\ tk_fut[i].pc = "delay"
    /\ tk_fut' = [tk_fut EXCEPT ![i] =
                    IF RetryExhausted(@.retry)
                    THEN [@ EXCEPT !.pc = Executed(tk_fut[i]), !.attempts = 0, !.wait = 0]
                    ELSE [@ EXCEPT !.pc = Pending("status"), !.attempts = @ + 1,
                                   !.wait = 0]]
    /\ UNCHANGED <<tk_pc, tk_tasks, tk_now, tk_config, tk_stop, tk_sink>>
    /\ UNCHANGED <<telem, errors, rd_vars, dl_vars, fp_vars, sc_vars, in_vars, hms_vars, ta_vars, ext_vars>>

\* `_ = stop.recv() => { return; }`: the task branch is dropped where it waits
TkCancel(i) ==
    /\ tk_fut[i].pc \in {"timer", "status", "delay"}
    /\ StopReady(tk_stop)
    /\ tk_fut' = [tk_fut EXCEPT ![i] = [@ EXCEPT !.pc = "ended"]]
    /\ UNCHANGED <<tk_pc, tk_tasks, tk_now, tk_config, tk_stop, tk_sink>>
    /\ UNCHANGED <<telem, errors, rd_vars, dl_vars, fp_vars, sc_vars, in_vars, hms_vars, ta_vars, ext_vars>>

\* stop() or check_stop_task_list: `handle.stopper.send(())`
TkStop ==
    /\ tk_pc = "started"
    /\ tk_stop = "none"
    /\ tk_stop' = "sent"
    /\ UNCHANGED <<tk_pc, tk_tasks, tk_now, tk_config, tk_fut, tk_sink>>
    /\ UNCHANGED <<telem, errors, rd_vars, dl_vars, fp_vars, sc_vars, in_vars, hms_vars, ta_vars, ext_vars>>

\* stop() on a map of several handles: this one is dropped with the Drain,
\* nothing is sent and the channel is closed
TkDrop ==
    /\ tk_pc = "started"
    /\ tk_stop = "none"
    /\ tk_stop' = "closed"
    /\ UNCHANGED <<tk_pc, tk_tasks, tk_now, tk_config, tk_fut, tk_sink>>
    /\ UNCHANGED <<telem, errors, rd_vars, dl_vars, fp_vars, sc_vars, in_vars, hms_vars, ta_vars, ext_vars>>

TkNext ==
    \/ TkValidate
    \/ TkStartList
    \/ TkStop
    \/ TkDrop
    \/ \E i \in 1..MaxTasks :
          TkSchedule(i) \/ TkFire(i) \/ TkStatus(i) \/ TkRetry(i) \/ TkCancel(i)

InitTasks ==
    TelemInit /\ RdInit /\ DlInit /\ FpIdle /\ ScIdle /\ InIdle /\ HmsIdle /\ TaIdle /\ TkInit /\ ExtIdle

SpecTasks == InitTasks /\ [][TkNext]_vars

\* a poll of a future that can move without a timer coming due
TkPoll ==
    \E i \in 1..MaxTasks : TkSchedule(i) \/ TkStatus(i) \/ TkRetry(i) \/ TkCancel(i)

\* the executor polls a future that can move, a launched app ends or fails
\* to start, a delay runs out; a timer need not come due
FairSpecTasks == SpecTasks /\ WF_vars(TkPoll)

\* ===================================================== the file client
\* clients/kubos-file-client/src/main.rs

\* the calls of each operation that end it with `?` or bail! when they fail,
\* in the order the operation makes them
OperationCalls ==
    [upload |-> <<"initialize_file", "generate_channel", "send_metadata", "send_export",
                  "message_engine">>,
     download |-> <<"generate_channel", "send_import", "recv", "process_message",
                    "message_engine">>,
     cleanup |-> <<"generate_channel", "send_cleanup">>]

Commands == DOMAIN OperationCalls

\* the values of -c on the command line: numbers and a text that is no number
ChunkSizeTexts == {<<"4", "0", "9", "6">>, <<"5", "1", "2">>, <<"4", "k">>}

\* `args.value_of("chunk_size").unwrap().parse().unwrap()`
ParsesUsize(text) == ParseU64(text) # None

\* a panic of the main thread ends the process with status 101
PanicStatus == 101

\* main returns () after logging the result: the process ends with status 0
ExitStatus(res) == 0

ClInit ==
    /\ cl_pc = "main"
    /\ cl_args = [command |-> "none", target_path |-> FALSE]
    /\ cl_step = 0
    /\ cl_result = "none"
    /\ cl_exit = NoExit

\* main up to the match on the subcommand: the arguments are read, a
\* chunk_size that is no number panics
ClParse ==
    /\ cl_pc = "main"
    /\ \E command \in Commands, target_path \in BOOLEAN, text \in ChunkSizeTexts :
          IF ParsesUsize(text)
          THEN /\ cl_args' = [command |-> command, target_path |-> target_path,
                              chunk_size |-> text]
               /\ cl_pc' = "run"
               /\ UNCHANGED cl_exit
          ELSE /\ cl_pc' = "exited"
               /\ cl_exit' = PanicStatus
               /\ UNCHANGED cl_args
    /\ UNCHANGED <<cl_step, cl_result>>
    /\ UNCHANGED <<telem, errors, rd_vars, dl_vars, fp_vars, sc_vars, sch_vars, nc_vars, tl_vars, im_vars>>

\* upload, download, cleanup: the next call returns Ok, and the operation
\* returns Ok(()) after the last one
ClCallOk ==
    /\ cl_pc = "run"
    /\ cl_step' = cl_step + 1
    /\ IF cl_step' = Len(OperationCalls[cl_args.command])
       THEN cl_result' = "Ok" /\ cl_pc' = "finish"
       ELSE UNCHANGED <<cl_result, cl_pc>>
    /\ UNCHANGED <<cl_args, cl_exit>>
    /\ UNCHANGED <<telem, errors, rd_vars, dl_vars, fp_vars, sc_vars, sch_vars, nc_vars, tl_vars, im_vars>>

\* the next call returns an error, which the operation propagates
ClCallErr ==
    /\ cl_pc = "run"
    /\ cl_result' = "Err"
    /\ cl_pc' = "finish"
    /\ UNCHANGED <<cl_args, cl_step, cl_exit>>
    /\ UNCHANGED <<telem, errors, rd_vars, dl_vars, fp_vars, sc_vars, sch_vars, nc_vars, tl_vars, im_vars>>

\* `if let Err(err) = result { error!(..) } else { info!(..) }`, end of main
ClFinish ==
    /\ cl_pc = "finish"
    /\ cl_pc' = "exited"
    /\ cl_exit' = ExitStatus(cl_result)
    /\ UNCHANGED <<cl_args, cl_step, cl_result>>
    /\ UNCHANGED <<telem, errors, rd_vars, dl_vars, fp_vars, sc_vars, sch_vars, nc_vars, tl_vars, im_vars>>

ClNext == ClParse \/ ClCallOk \/ ClCallErr \/ ClFinish

InitClient ==
    TelemInit /\ RdInit /\ DlInit /\ FpIdle /\ ScIdle /\ SchIdle /\ ClInit /\ NcIdle /\ TlIdle /\ ImIdle

SpecClient == InitClient /\ [][ClNext]_vars

\* ============================================ initialize_file: num_chunks
\* libs/file-protocol/src/storage.rs

\* x / d and x % d for a u64 x and 0 < d < 2^15: the limbs i..1 of the
\* quotient, the lowest first, and the remainder
RECURSIVE DivFrom(_, _, _, _)
DivFrom(x, d, i, rem) ==
    IF i = 0 THEN [q |-> <<>>, r |-> rem]
    ELSE LET t == rem * LimbBase + x[i]
             rest == DivFrom(x, d, i - 1, t % d)
         IN  [q |-> Append(rest.q, t \div d), r |-> rest.r]

\* `x as u32` of a u64: the low 32 bits
AsU32(x) == SubSeq(x, 1, 2)

\* `(file_size / transfer_chunk_size as u64) as u32
\*      + ((file_size % transfer_chunk_size as u64) > 0) as u32`:
\* a division by zero panics, and so does the sum that passes u32::MAX
\* in a build with overflow checks; without them the sum wraps
NumChunksU32(file_size, transfer_chunk_size, overflow_checks) ==
    IF transfer_chunk_size = 0 THEN [panic |-> TRUE, index |-> <<0, 0>>]
    ELSE LET d == DivFrom(file_size, transfer_chunk_size, Len(file_size), 0)
             s == AddFrom(AsU32(d.q), <<IF d.r > 0 THEN 1 ELSE 0, 0>>, 0, 1)
         IN  [panic |-> Carry(s) # 0 /\ overflow_checks, index |-> Low(s)]

\* file sizes around the chunk sizes, and around the sizes whose chunk
\* count passes u32::MAX
FileSizes ==
    {<<0, 0, 0, 0>>, <<1, 0, 0, 0>>, <<2, 0, 0, 0>>, <<4095, 0, 0, 0>>, <<4096, 0, 0, 0>>,
     <<4097, 0, 0, 0>>, <<8192, 0, 0, 0>>, <<10000, 0, 0, 0>>,
     <<65535, 65535, 0, 0>>, <<0, 0, 1, 0>>, <<1, 0, 1, 0>>,
     <<65535, 65535, 4095, 0>>, <<0, 0, 4096, 0>>, <<1, 0, 4096, 0>>}

TransferChunkSizes == {0, 1, 2, 4096}

NcInit ==
    /\ nc_pc = "call"
    /\ nc_in \in [file_size : FileSizes, transfer_chunk_size : TransferChunkSizes,
                   overflow_checks : BOOLEAN]
    /\ nc_ret = <<0, 0>>

\* initialize_file up to `let index = ..`: the chunk count is computed
NcIndex ==
    LET n == NumChunksU32(nc_in.file_size, nc_in.transfer_chunk_size, nc_in.overflow_checks)
    IN  /\ nc_pc = "call"
        /\ ~n.panic
        /\ nc_pc' = "returned"
        /\ nc_ret' = n.index
        /\ UNCHANGED nc_in
        /\ UNCHANGED <<telem, errors, rd_vars, dl_vars, fp_vars, sc_vars, sch_vars, cl_vars, tl_vars, im_vars>>

\* the division or the sum panics
NcPanic ==
    LET n == NumChunksU32(nc_in.file_size, nc_in.transfer_chunk_size, nc_in.overflow_checks)
    IN  /\ nc_pc = "call"
        /\ n.panic
        /\ nc_pc' = "panicked"
        /\ UNCHANGED <<nc_in, nc_ret>>
        /\ UNCHANGED <<telem, errors, rd_vars, dl_vars, fp_vars, sc_vars, sch_vars, cl_vars, tl_vars, im_vars>>

NcNext == NcIndex \/ NcPanic

InitNumChunks ==
    TelemInit /\ RdInit /\ DlInit /\ FpIdle /\ ScIdle /\ SchIdle /\ ClIdle /\ NcInit /\ TlIdle /\ ImIdle

SpecNumChunks == InitNumChunks /\ [][NcNext]_vars

\* ================= scheduler: check_start_task_list, check_stop_task_list
\* services/scheduler-service/src/scheduler.rs

\* str::to_lowercase on the letters names are written with
UpperToLower == [A |-> "a", B |-> "b", O |-> "o", P |-> "p", S |-> "s"]
to_lowercase(str) ==
    [i \in DOMAIN str |-> IF str[i] \in DOMAIN UpperToLower THEN UpperToLower[str[i]]
                          ELSE str[i]]

\* the names of task list files and of modes, and the arguments of the
\* calls: the same names, also written with capitals
ListNames == {<<"a">>, <<"b">>}
RawNames == ListNames \cup {<<"A">>}
ModeArgs == {<<"s", "a", "f", "e">>, <<"o", "p", "s">>}
RawModes == ModeArgs \cup {<<"O", "P", "S">>}

\* mode.rs: the mode is the active one
is_mode_active(active, mode) == mode = active

\* TaskList::from_path on `{scheduler_dir}/{mode}/{name}.json`
ListFromPathFails(kind) == kind = "absent" \/ FromPathFails(kind)

\* schedule_tasks: a new broadcast channel, one spawned future per task
schedule_tasks(handles, name) == Append(handles, [name |-> name, stop |-> "open"])

\* a SchedulerHandle is dropped: the channel closes unless a stop was sent
DropHandle(handles, h) ==
    [handles EXCEPT ![h].stop = IF @ = "open" THEN "closed" ELSE @]

\* variant: every stopper is sent the signal
StoppedAll(handles, h) == [i \in DOMAIN handles |-> [handles[i] EXCEPT !.stop = "sent"]]

\* `handle.stopper.send(())`, and the handle is dropped
Stopped(handles, h) == [handles EXCEPT ![h].stop = "sent"]

\* start_task_list: `schedules_map.insert(list.filename, scheduler_handle)`;
\* the handle the name had before is dropped
start_task_list(map, handles, name) ==
    LET made == schedule_tasks(handles, name)
    IN  [map |-> [n \in DOMAIN map \cup {name} |-> IF n = name THEN Len(made) ELSE map[n]],
         handles |-> IF name \in DOMAIN map THEN DropHandle(made, map[name]) ELSE made]

TlInit ==
    /\ tl_active \in ModeArgs
    /\ tl_lists \in [ListNames -> {"absent", "good", "unparsable"}]
    /\ tl_map = <<>>
    /\ tl_handles = <<>>
    /\ tl_ret = [op |-> "none"]
    /\ tl_calls = 0

TlCheckStartTaskList(raw_name, raw_mode) ==
    LET name == to_lowercase(raw_name)
        mode == to_lowercase(raw_mode)
        active == is_mode_active(tl_active, mode)
        fails == active /\ ListFromPathFails(tl_lists[name])
        started == start_task_list(tl_map, tl_handles, name)
    IN  /\ tl_calls < MaxListCalls
        /\ tl_calls' = tl_calls + 1
        /\ tl_ret' = [op |-> "check_start_task_list", name |-> name, active |-> active,
                      kind |-> IF fails THEN "TaskListParseError" ELSE "Ok"]
        /\ IF active /\ ~fails
           THEN tl_map' = started.map /\ tl_handles' = started.handles
           ELSE UNCHANGED <<tl_map, tl_handles>>
        /\ UNCHANGED <<tl_active, tl_lists>>
        /\ UNCHANGED <<telem, errors, rd_vars, dl_vars, fp_vars, sc_vars, sch_vars, cl_vars, nc_vars, im_vars>>

TlCheckStopTaskList(raw_name, raw_mode) ==
    LET name == to_lowercase(raw_name)
        mode == to_lowercase(raw_mode)
        active == is_mode_active(tl_active, mode)
    IN  /\ tl_calls < MaxListCalls
        /\ tl_calls' = tl_calls + 1
        /\ tl_ret' = [op |-> "check_stop_task_list", name |-> name, active |-> active,
                      kind |-> "Ok"]
        /\ IF active /\ name \in DOMAIN tl_map
           THEN /\ tl_map' = [n \in DOMAIN tl_map \ {name} |-> tl_map[n]]
                /\ tl_handles' = Stopped(tl_handles, tl_map[name])
           ELSE UNCHANGED <<tl_map, tl_handles>>
        /\ UNCHANGED <<tl_active, tl_lists>>
        /\ UNCHANGED <<telem, errors, rd_vars, dl_vars, fp_vars, sc_vars, sch_vars, cl_vars, nc_vars, im_vars>>

TlNext ==
    \E raw_name \in RawNames, raw_mode \in RawModes :
        \/ TlCheckStartTaskList(raw_name, raw_mode)
        \/ TlCheckStopTaskList(raw_name, raw_mode)

InitTaskLists ==
    TelemInit /\ RdInit /\ DlInit /\ FpIdle /\ ScIdle /\ SchIdle /\ ClIdle /\ NcIdle /\ TlInit /\ ImIdle

SpecTaskLists == InitTaskLists /\ [][TlNext]_vars

\* ================================ import_task_list, import_raw_task_list
\* services/scheduler-service/src/task_list.rs

\* where an i/o call of an import can fail: fs::copy before it opens the
\* destination or while it copies; File::create, write_all, sync_all
CopyFaults == {"none", "open", "copy"}
WriteFaults == {"none", "create", "write", "sync_all"}

\* fs::remove_file(&schedule_dest)
remove_file(dir, name) == [dir EXCEPT ![name] = "absent"]

\* fs::copy(path, &schedule_dest): the destination is created or truncated
\* once the source is open, and holds a part of it when the copy fails
fs_copy(dir, name, content, fault) ==
    IF fault = "open" THEN [ok |-> FALSE, dir |-> dir]
    ELSE IF fault = "copy" THEN [ok |-> FALSE, dir |-> [dir EXCEPT ![name] = "partial"]]
    ELSE [ok |-> TRUE, dir |-> [dir EXCEPT ![name] = content]]

\* File::create truncates the destination, write_all fills it, sync_all
\* flushes it
create_write_sync(dir, name, json, fault) ==
    IF fault = "create" THEN [ok |-> FALSE, dir |-> dir]
    ELSE IF fault = "write" THEN [ok |-> FALSE, dir |-> [dir EXCEPT ![name] = "partial"]]
    ELSE [ok |-> fault # "sync_all", dir |-> [dir EXCEPT ![name] = json]]

\* `if let Err(e) = validate_task_list(&schedule_dest) { remove_file; return Err(e) }`
ValidateImported(dir, name, content) ==
    IF ValidateFails(content)
    THEN [dir |-> remove_file(dir, name), ret |-> "validate_task_list"]
    ELSE [dir |-> dir, ret |-> "Ok"]

import_task_list(modes, dir, name, mode, content, fault) ==
    IF mode \notin modes THEN [dir |-> dir, ret |-> "Mode not found"]
    ELSE LET c == fs_copy(dir, name, content, fault)
         IN  IF ~c.ok THEN [dir |-> c.dir, ret |-> "ImportError"]
             ELSE ValidateImported(c.dir, name, content)

import_raw_task_list(modes, dir, name, mode, json, fault) ==
    IF mode \notin modes THEN [dir |-> dir, ret |-> "Mode not found"]
    ELSE LET c == create_write_sync(dir, name, json, fault)
         IN  IF ~c.ok THEN [dir |-> c.dir, ret |-> "ImportError"]
             ELSE ValidateImported(c.dir, name, json)

ImInit ==
    /\ im_pc = "call"
    /\ im_modes \in SUBSET ModeArgs
    /\ im_dir \in [ListNames -> ListKinds \cup {"absent"}]
    /\ im_in = [op |-> "none"]
    /\ im_ret = "none"

ImImportTaskList(raw_name, raw_mode, content, fault) ==
    LET name == to_lowercase(raw_name)
        mode == to_lowercase(raw_mode)
        r == import_task_list(im_modes, im_dir, name, mode, content, fault)
    IN  /\ im_pc = "call"
        /\ im_pc' = "returned"
        /\ im_in' = [op |-> "import_task_list", name |-> name, mode |-> mode,
                     content |-> content, fault |-> fault]
        /\ im_dir' = r.dir
        /\ im_ret' = r.ret
        /\ UNCHANGED im_modes
        /\ UNCHANGED <<telem, errors, rd_vars, dl_vars, fp_vars, sc_vars, sch_vars, cl_vars, nc_vars, tl_vars>>

ImImportRawTaskList(raw_name, raw_mode, json, fault) ==
    LET name == to_lowercase(raw_name)
        mode == to_lowercase(raw_mode)
        r == import_raw_task_list(im_modes, im_dir, name, mode, json, fault)
    IN  /\ im_pc = "call"
        /\ im_pc' = "returned"
        /\ im_in' = [op |-> "import_raw_task_list", name |-> name, mode |-> mode,
                     content |-> json, fault |-> fault]
        /\ im_dir' = r.dir
        /\ im_ret' = r.ret
        /\ UNCHANGED im_modes
        /\ UNCHANGED <<telem, errors, rd_vars, dl_vars, fp_vars, sc_vars, sch_vars, cl_vars, nc_vars, tl_vars>>

ImNext ==
    \E raw_name \in RawNames, raw_mode \in RawModes, content \in ListKinds :
        \/ \E fault \in CopyFaults : ImImportTaskList(raw_name, raw_mode, content, fault)
        \/ \E fault \in WriteFaults : ImImportRawTaskList(raw_name, raw_mode, content, fault)

InitImport ==
    TelemInit /\ RdInit /\ DlInit /\ FpIdle /\ ScIdle /\ SchIdle /\ ClIdle /\ NcIdle /\ TlIdle /\ ImInit

SpecImport == InitImport /\ [][ImNext]_vars


\* ================================================================ claims
\* handler threads between admission and the decrement that follows the
\* return of their handler function, the one being spawned included
Active == Cardinality({h \in DOMAIN handlers : handlers[h].st \in {"start", "wait", "returned"}})
              + (IF rd_pc = "spawn" THEN 1 ELSE 0)

\* handler threads that were spawned and have not exited
Alive == Cardinality({h \in DOMAIN handlers : handlers[h].st # "exited"})

\* C1 as stated: counting a handler thread from its spawn until the thread
\* exits, no more than max_num_handlers handler threads are ever alive.
C1_AliveWithinBudget == Alive <= MaxNumHandlers

\* C1 amended: no more than max_num_handlers handlers are ever between their
\* admission and the decrement that follows the return of their handler
\* function; threads past the decrement are not counted.
C1_ActiveWithinBudget == Active <= MaxNumHandlers

C1_Witness == Active = MaxNumHandlers /\ \E h \in DOMAIN handlers : handlers[h].st = "log"

\* C2: a Request or DownStream frame dispatched while the counter is at or
\* above max_num_handlers is dropped: one NoAvailablePorts error is recorded,
\* no handler is spawned, the counter is unchanged, the loop reads again.
C2_DropWhenExhausted ==
    [][(/\ rd_pc = "dispatch"
        /\ packet.class \in {"Request", "DownStream"}
        /\ num_handlers >= MaxNumHandlers
        /\ rd_pc' # rd_pc)
       => (/\ errors' = [errors EXCEPT !["NoAvailablePorts"] = @ + 1]
           /\ handlers' = handlers
           /\ num_handlers' = num_handlers
           /\ telem' = telem
           /\ rd_pc' = "read")]_vars

C2_Witness ==
    /\ errors["NoAvailablePorts"] > 0
    /\ num_handlers = MaxNumHandlers
    /\ Len(handlers) = MaxNumHandlers

\* C3: the counter equals the number of admitted handlers whose handler
\* function has not yet returned and been accounted for (one increment before
\* the spawn, one decrement at the return, success or failure), so it never
\* goes below 0 and is 0 once every admitted handler has completed.
C3_CounterMatchesHandlers ==
    /\ num_handlers = Active
    /\ num_handlers >= 0
    /\ ((rd_pc # "spawn" /\ \A h \in DOMAIN handlers : handlers[h].st \in {"log", "exited"})
          => num_handlers = 0)

C3_Witness ==
    /\ Len(handlers) >= 2
    /\ \A h \in DOMAIN handlers : handlers[h].st = "exited"
    /\ \E h \in DOMAIN handlers : handlers[h].res = "Ok"
    /\ \E h \in DOMAIN handlers : handlers[h].res = "Err"
    /\ num_handlers = 0

\* the handler function of thread h has returned
Returned(h) == handlers[h].st \in {"returned", "log", "exited"}

\* exactly one frame, with the request's command id, class Request and the
\* response datagram as payload
OneResponseFrame(h) ==
    /\ Len(handlers[h].out) = 1
    /\ handlers[h].out[1].command_id = handlers[h].msg.command_id
    /\ handlers[h].out[1].class = "Request"
    /\ handlers[h].out[1].payload = handlers[h].reply

\* C10 as stated: a Request handler whose local service replied within the
\* read timeout has passed exactly one frame to the write function.
C10_ReplyWritten ==
    \A h \in DOMAIN handlers :
        (handlers[h].class = "Request" /\ Returned(h) /\ handlers[h].reply # NoReply)
            => OneResponseFrame(h)

\* C10 amended: a Request handler whose local service replied within the
\* read timeout and whose response frame could be built has passed exactly
\* one frame to the write function: the request's command id, class Request,
\* the response as payload; any other Request handler has passed none.
C10_ReplyWrittenIfBuilt ==
    \A h \in DOMAIN handlers :
        (handlers[h].class = "Request" /\ Returned(h))
            => IF handlers[h].reply # NoReply /\ handlers[h].built
                 THEN OneResponseFrame(h)
                 ELSE handlers[h].out = <<>>

C10_Witness ==
    \E h \in DOMAIN handlers :
        /\ handlers[h].class = "Request"
        /\ handlers[h].st = "exited"
        /\ handlers[h].res = "Ok"
        /\ handlers[h].out = <<Build(handlers[h].msg.command_id, "Request", 0, "pong")>>

\* C4 as stated: at every dequeue the hint sent is max - min(K, max), K the
\* packets enqueued and not yet acknowledged (the one dequeued included).
C4_HintIsMaxMinusOutstanding ==
    [][(dl_pc = "dec" /\ dl_pc' = "send")
       => dl_hint' = max - Min(Len(packet_ch) + 1, max)]_vars

\* C5 as stated: the datagrams in flight (received and not yet dequeued)
\* never exceed max.
C5_InFlightAtMostMax == Len(packet_ch) <= max

\* datagram d was passed to the write function in a frame
Written(d) == \E i \in DOMAIN dl_written : dl_written[i].payload = d

\* C6 as stated: every datagram the receiver worker received is eventually
\* passed to the write function in a frame.
C6_EveryDatagramWritten ==
    \A d \in 1..MaxDatagrams : (n_recv >= d) ~> Written(d)

\* C6 amended: every datagram the receiver worker received is eventually
\* passed to the write function in a frame, or dropped because its frame
\* could not be built.
C6_EveryDatagramWrittenOrDropped ==
    \A d \in 1..MaxDatagrams : (n_recv >= d) ~> (Written(d) \/ d \in dl_dropped)

C6_Witness ==
    /\ n_recv = MaxDatagrams
    /\ dl_dropped # {}
    /\ Len(dl_written) + Cardinality(dl_dropped) = MaxDatagrams
    /\ Len(dl_written) >= 2

\* C7 as stated: one hint byte has been sent for every datagram dequeued.
C7_OneHintPerDequeue == (dl_pc # "dec") => n_hints = n_deq

\* C8 as stated: every buffer created is with the receiver, in the packet
\* channel, with the downlink loop or in the return channel.
C8_BuffersStayInPool ==
    n_bufs = (IF rx_pc = "recv" THEN 1 ELSE 0) + Len(packet_ch)
               + (IF dl_cur # NoItem THEN 1 ELSE 0) + return_ch

Received(h) ==
    IF handlers[h].reply = NoReply THEN 0
    ELSE CHOOSE k \in 1..(MaxStream + 1) : StreamDatagram(k) = handlers[h].reply

\* the frames handler h passed to the write function are DownStream frames
\* with the request's command id, the i-th one carrying the i-th datagram
StreamFramesInOrder(h) ==
    \A i \in DOMAIN handlers[h].out :
        /\ handlers[h].out[i].command_id = handlers[h].msg.command_id
        /\ handlers[h].out[i].class = "DownStream"
        /\ handlers[h].out[i].payload = StreamDatagram(i)

\* C11 as stated: a DownStream handler has written one DownStream frame with
\* the request's command id for each datagram it received, in receive order.
C11_FramePerDatagram ==
    \A h \in DOMAIN handlers :
        handlers[h].class = "DownStream"
            => StreamFramesInOrder(h) /\ Len(handlers[h].out) = Received(h)

\* C11 amended: a DownStream handler has written, in receive order, one
\* DownStream frame with the request's command id for each datagram it
\* received, except a last datagram whose frame could not be built; its loop
\* goes on after each frame written, ends with Ok when a receive times out or
\* fails and with Err at the first build or write failure, and only a
\* handler whose function has returned releases its slot.
C11_FramePerBuiltDatagram ==
    \A h \in DOMAIN handlers :
        handlers[h].class = "DownStream" =>
            /\ StreamFramesInOrder(h)
            /\ Len(handlers[h].out) =
                 IF Received(h) > 0 /\ ~handlers[h].built
                   THEN Received(h) - 1 ELSE Received(h)
            /\ (handlers[h].st = "wait" =>
                  handlers[h].res = "none" /\ Len(handlers[h].out) = Received(h))
            /\ (Returned(h) => handlers[h].res \in {"Ok", "Err"})
            /\ (Returned(h) /\ handlers[h].res = "Ok" =>
                  Len(handlers[h].out) = Received(h))
            /\ (handlers[h].st \in {"log", "exited"} => num_handlers = Active)

C11_Witness ==
    \E h \in DOMAIN handlers :
        /\ handlers[h].class = "DownStream"
        /\ handlers[h].st = "exited"
        /\ handlers[h].res = "Ok"
        /\ Len(handlers[h].out) = MaxStream
        /\ num_handlers = 0

\* the errors of one frame after which the read loop has to read again
FrameErrors == {"Io", "HeaderParsing", "InvalidChecksum", "UnknownPayloadType",
                "NoAvailablePorts"}

\* C12: the read loop is always at its read, at its match or at a spawn, and
\* a step that records a gateway read error, a header parse failure, a
\* checksum failure, an Unknown payload class, a budget-exhausted drop or a
\* failed UDP forward leaves it at the next read, holding no packet.
C12_ReadLoopRecovers ==
    /\ [](rd_pc \in {"read", "dispatch", "spawn"})
    /\ [][(\E k \in FrameErrors : errors'[k] # errors[k])
          => (rd_pc' = "read" /\ packet' = NoPacket)]_vars

C12_Witness ==
    /\ rd_pc = "read"
    /\ n_read = MaxFrames
    /\ errors["Io"] + errors["HeaderParsing"] + errors["InvalidChecksum"]
         + errors["UnknownPayloadType"] + errors["NoAvailablePorts"] = MaxFrames

\* C13: a read whose frame fails parsing or validation adds one to the
\* uplink-failed counter, leaves the uplink counter alone and dispatches
\* nothing (no forward, no handler, no packet held); a read whose frame
\* parses and validates adds one to the uplink counter, whatever its class,
\* and nothing else ever changes the uplink counter; so forwards and
\* handlers never outnumber the validated frames.
C13_UplinkCounters ==
    /\ [](/\ telem.up + telem.up_failed <= n_read
          /\ Len(forwarded) + Len(handlers) <= telem.up)
    /\ [][/\ (errors'["HeaderParsing"] # errors["HeaderParsing"]
                \/ errors'["InvalidChecksum"] # errors["InvalidChecksum"])
             => (/\ telem'.up_failed = telem.up_failed + 1
                 /\ telem'.up = telem.up
                 /\ forwarded' = forwarded
                 /\ Len(handlers') = Len(handlers)
                 /\ num_handlers' = num_handlers
                 /\ packet' = NoPacket
                 /\ rd_pc' = "read")
          /\ (rd_pc = "read" /\ rd_pc' = "dispatch")
             => (/\ packet' \in Frames
                 /\ telem'.up = telem.up + 1
                 /\ telem'.up_failed = telem.up_failed)
          /\ (telem'.up # telem.up)
             => (rd_pc = "read" /\ rd_pc' = "dispatch" /\ n_read' = n_read + 1)]_vars

C13_Witness ==
    /\ telem.up = 1
    /\ telem.up_failed = 1
    /\ errors["InvalidChecksum"] = 1
    /\ Len(forwarded) + Len(handlers) = 1

\* the k-th range validate_file returned, as the set of chunks it names
VfRange(k) == vf_result.ranges[2 * k - 1] .. (vf_result.ranges[2 * k] - 1)
VfNumRanges == Len(vf_result.ranges) \div 2
VfMissing == (0..(vf_num - 1)) \ vf_present

\* C15: for present chunks P within [0, N), validate_file returns non-empty
\* half-open ranges [lo, hi) of missing chunks, ascending and apart, at most
\* 186 of them; when fewer than 186 come back their union is exactly
\* [0, N) \ P, and when 186 come back they are the first 186 gaps: every
\* missing chunk below the end of the last range is in one of them; the
\* flag returned is true exactly when no range is returned.
C15_RangesAreMissing ==
    vf_pc = "done" =>
        /\ Len(vf_result.ranges) = 2 * VfNumRanges
        /\ VfNumRanges <= max_entries
        /\ vf_result.complete = (vf_result.ranges = <<>>)
        /\ \A k \in 1..VfNumRanges :
              /\ vf_result.ranges[2 * k - 1] < vf_result.ranges[2 * k]
              /\ VfRange(k) \subseteq VfMissing
              /\ k < VfNumRanges
                   => vf_result.ranges[2 * k] < vf_result.ranges[2 * k + 1]
        /\ IF VfNumRanges < max_entries
             THEN UNION {VfRange(k) : k \in 1..VfNumRanges} = VfMissing
             ELSE UNION {VfRange(k) : k \in 1..VfNumRanges}
                    = {m \in VfMissing : m < vf_result.ranges[2 * max_entries]}

C15_Witness ==
    /\ vf_pc = "done"
    /\ VfNumRanges = max_entries
    /\ \E m \in VfMissing : m >= vf_result.ranges[2 * max_entries]

\* the hash directory named after the source file's digest
SourceHash == calc_file_hash(source)
\* the number of chunks of the source file: the least n with n chunks of
\* ChunkSize bytes holding the whole file
SourceChunks ==
    CHOOSE n \in 0..MaxFileLen :
        /\ n * ChunkSize >= Len(source)
        /\ \A k \in 0..(n - 1) : k * ChunkSize < Len(source)
\* bytes of the source file that chunk i carries
SourceChunk(i) ==
    [b \in 1..(IF (i + 1) * ChunkSize <= Len(source)
                 THEN ChunkSize ELSE Len(source) - i * ChunkSize)
        |-> source[i * ChunkSize + b]]
\* the directory is as initialize_file left its meta
Initialised(hash) ==
    /\ hash \in DOMAIN storage
    /\ storage[hash].has_meta
    /\ storage[hash].meta[3].val = Some("source")
\* the directory's meta is the one validate_file(.., Some(n)) writes
Announced(hash, n) ==
    /\ hash \in DOMAIN storage
    /\ storage[hash].has_meta
    /\ storage[hash].meta[1].val = Some(n)
    /\ storage[hash].meta[2].val = None
    /\ storage[hash].meta[3].val = None
\* every chunk of the source file is stored under hash, and nothing else
AllChunksStored(hash) ==
    /\ DOMAIN storage[hash].chunks = 0..(SourceChunks - 1)
    /\ \A i \in 0..(SourceChunks - 1) :
          storage[hash].chunks[i] = [data |-> SourceChunk(i), readable |-> TRUE]

\* C14: a finalize_file on the directory that initialize_file set up for a
\* source file holding S (or that was told S's chunk count) returns Ok and
\* leaves a target file byte-identical to S when every chunk of S is
\* stored there, and returns FinalizeError("file missing chunks"), touching
\* neither the directory nor the target, when a chunk index below
\* num_chunks has no file.
C14_RoundTrip ==
    [][(result'.op = "finalize_file" /\ result'.hash = SourceHash
          /\ (Initialised(SourceHash) \/ Announced(SourceHash, SourceChunks)))
       => /\ AllChunksStored(SourceHash)
               => /\ result'.kind = "Ok"
                  /\ target' = [exists |-> TRUE, data |-> source]
                  /\ storage' = storage
          /\ (\E i \in 0..(SourceChunks - 1) : i \notin DOMAIN storage[SourceHash].chunks)
               => /\ result'.kind = "FinalizeError"
                  /\ result'.action = "file missing chunks"
                  /\ storage' = storage
                  /\ target' = target]_vars

C14_Witness ==
    /\ Len(source) = MaxFileLen
    /\ result.op = "finalize_file" /\ result.kind = "Ok"
    /\ Initialised(SourceHash)
    /\ AllChunksStored(SourceHash)
    /\ target = [exists |-> TRUE, data |-> source]

\* what the chunk files 0 .. n-1 of a directory hold, end to end
RECURSIVE Reassembled(_, _)
Reassembled(chunks, n) ==
    IF n = 0 THEN <<>> ELSE Reassembled(chunks, n - 1) \o chunks[n - 1].data

\* the directory holds a readable file for each of its n chunks, one of
\* them is not the source's chunk, and the digest of the whole is not hash
TamperedComplete(hash, n) ==
    /\ Announced(hash, n)
    /\ DOMAIN storage[hash].chunks = 0..(n - 1)
    /\ \A i \in 0..(n - 1) : storage[hash].chunks[i].readable
    /\ \E i \in 0..(n - 1) : storage[hash].chunks[i].data # SourceChunk(i)
    /\ calc_file_hash(Reassembled(storage[hash].chunks, n)) # hash

\* C16: finalize_file on a complete directory in which a chunk was tampered
\* with, so that the digest of the reassembled file is not the hash name,
\* returns HashMismatch, and afterwards the hash directory is gone, files
\* and all, while the other directories are as before.
C16_TamperedIsRejected ==
    [][(result'.op = "finalize_file"
          /\ \E n \in 0..MaxFileLen : TamperedComplete(result'.hash, n))
       => /\ result'.kind = "HashMismatch"
          /\ result'.hash \notin DOMAIN storage'
          /\ DOMAIN storage' = DOMAIN storage \ {result'.hash}
          /\ \A g \in DOMAIN storage' : storage'[g] = storage[g]]_vars

C16_Witness ==
    /\ result.op = "finalize_file" /\ result.kind = "HashMismatch"
    /\ result.hash \notin DOMAIN storage
    /\ target.exists /\ target.data # source
    /\ Len(target.data) = Len(source)
    /\ Len(source) = MaxFileLen

\* C17: delete_file on a hash without a staging directory returns a storage
\* IO error and changes nothing; delete_file on a hash that has one returns
\* Ok, after it that directory and its files are gone (so the next
\* delete_file on it meets the first case) and every other hash directory
\* is as before.
C17_DeleteFile ==
    /\ [](result.op = "delete_file" /\ result.kind = "Ok"
            => result.hash \notin DOMAIN storage)
    /\ [][result'.op = "delete_file"
          => IF result'.hash \notin DOMAIN storage
               THEN /\ result'.kind = "StorageError"
                    /\ result'.action = "deleting file"
                    /\ storage' = storage
                    /\ target' = target
               ELSE /\ result'.kind = "Ok"
                    /\ DOMAIN storage' = DOMAIN storage \ {result'.hash}
                    /\ \A g \in DOMAIN storage' : storage'[g] = storage[g]
                    /\ target' = target]_vars

C17_Witness ==
    /\ result.op = "delete_file" /\ result.kind = "StorageError"
    /\ result.hash = SourceHash
    /\ SourceHash \notin DOMAIN storage
    /\ OtherHash(source) \in DOMAIN storage
    /\ target.exists

\* chunk indices of a complete directory whose file cannot be read
Failing(hash, n) == {i \in 0..(n - 1) : ~storage[hash].chunks[i].readable}

\* C18 as stated: when the files of some chunks of a complete directory
\* cannot be loaded, finalize_file deletes exactly those chunk files, keeps
\* the directory and returns the error of the first chunk that failed.
C18_ReturnsFirstChunkError ==
    [][(result'.op = "finalize_file"
          /\ \E n \in 1..MaxFileLen :
                /\ Announced(result'.hash, n)
                /\ DOMAIN storage[result'.hash].chunks = 0..(n - 1)
                /\ Failing(result'.hash, n) # {})
       => LET hash == result'.hash
              n == CHOOSE k \in 1..MaxFileLen : Announced(hash, k)
              first == CHOOSE i \in Failing(hash, n) :
                          \A o \in Failing(hash, n) : i <= o
          IN  /\ hash \in DOMAIN storage'
              /\ DOMAIN storage'[hash].chunks = (0..(n - 1)) \ Failing(hash, n)
              /\ \A i \in DOMAIN storage'[hash].chunks :
                    storage'[hash].chunks[i] = storage[hash].chunks[i]
              /\ result'.kind = "StorageError"
              /\ result'.action = "read chunk file"
              /\ result'.index = first]_vars

\* C19: with one store_meta at a time, at every point during and after a
\* call, a stop between its steps included, hash/meta is absent or holds a
\* complete document, the one it held when the call began or the one being
\* stored; a load_meta running beside it never fails to parse and returns
\* metadata that some call stored; and once store_meta has returned Ok,
\* hash/meta holds the document of exactly the metadata it was given.
C19_StoreMetaAtomic ==
    LET now == FileAt(sm_dir, sm_files, meta_path)
    IN  /\ now.exists =>
              /\ Parses(now.doc)
              /\ \/ sm_prev.exists /\ now.doc = sm_prev.doc
                 \/ now.doc = to_vec(sm_args)
        /\ ~now.exists => ~sm_prev.exists
        /\ ld_ret.kind # "StorageParseError"
        /\ ld_ret.kind = "Ok" => ld_ret.meta \in sm_committed
        /\ (sm_pc = "idle" /\ sm_ret = "Ok") =>
              /\ now.exists
              /\ Parses(now.doc)
              /\ from_slice(now.doc) = sm_args

C19_Witness ==
    /\ sm_calls = MaxStoreCalls
    /\ sm_pc = "idle" /\ sm_ret = "crashed"
    /\ sm_dir[temp_path] # NoFile
    /\ sm_dir[meta_path] # NoFile
    /\ Len(sm_files[sm_dir[temp_path]]) \in 1..2
    /\ sm_files[sm_dir[meta_path]] # to_vec(sm_args)
    /\ ld_ret.kind = "Ok"

\* every task list of the mode can be started
Startable(mode) == \A i \in DOMAIN sc_modes[mode] : ~ValidateFails(sc_modes[mode][i])
\* start() is over: it returned, or the process went down in a panic
ScOver == sc_pc \in {"returned", "panicked"}

C21_StopSignalsEveryHandle ==
    [][(sc_pc = "returned" /\ sc_pc' = "stopped")
        => (sc_signalled' = DOMAIN sc_map /\ sc_map' = <<>>)]_vars

\* C23: after init() returns Ok a mode is active; a mode that was active
\* when init() was called is still the active one; if none was, the safe
\* mode exists and is the active mode
C23_InitLeavesActiveMode ==
    init_ret = "Ok" =>
        /\ active_link \in mode_dirs
        /\ init_entry.active \in init_entry.modes => active_link = init_entry.active
        /\ init_entry.active \notin init_entry.modes =>
               (SAFE_MODE \in mode_dirs /\ active_link = SAFE_MODE)

\* init() returned Ok after it created the safe mode and activated it
C23_Witness ==
    /\ init_ret = "Ok"
    /\ SAFE_MODE \notin init_entry.modes
    /\ init_entry.active \notin init_entry.modes
    /\ active_link = SAFE_MODE

\* the value of a text of digits, exact, on six limbs
RECURSIVE ExactNumber(_, _)
ExactNumber(str, acc) ==
    IF str = <<>> THEN acc
    ELSE ExactNumber(Tail(str), Low(MulAddFrom(acc, 10, DigitValue(Head(str)), 1)))

\* a part of the form <n>h, <n>m or <n>s, n written with digits
IsHmsPart(part) ==
    /\ Len(part) >= 2
    /\ part[Len(part)] \in {"h", "m", "s"}
    /\ \A i \in 1..(Len(part) - 1) : IsDigit(part[i])

\* the seconds a part stands for, exact
PartSeconds(part) ==
    LET n == ExactNumber(PopRest(part), <<0, 0, 0, 0, 0, 0>>)
        u == part[Len(part)]
    IN  Low(MulAddFrom(n, IF u = "h" THEN 3600 ELSE IF u = "m" THEN 60 ELSE 1, 0, 1))

\* 3600*h + 60*m + s over the parts of a field, exact
RECURSIVE ExactSeconds(_)
ExactSeconds(parts) ==
    IF parts = <<>> THEN <<0, 0, 0, 0, 0, 0>>
    ELSE Low(AddFrom(PartSeconds(Head(parts)), ExactSeconds(Tail(parts)), 0, 1))

\* every part of the field has the form <n>h, <n>m or <n>s
IsHmsField(str) == \A i \in DOMAIN Split(str, <<>>) : IsHmsPart(Split(str, <<>>)[i])

\* C27: for every field made of space-separated parts <n>h, <n>m, <n>s with
\* non-negative integers, parse_hms_field returns the duration of
\* 3600*h + 60*m + s seconds
C27_HmsSum ==
    (hms_pc = "done" /\ IsHmsField(field)) =>
        /\ hms_ret.kind = "Ok"
        /\ hms_ret.secs \o <<0, 0>> = ExactSeconds(Split(field, <<>>))

\* the rank of a unit in the order hours, minutes, seconds
UnitRank(u) == IF u = "h" THEN 1 ELSE IF u = "m" THEN 2 ELSE 3

\* a non-empty ordered subset of Xh Ym Zs: hours before minutes before
\* seconds, each unit at most once
IsOrderedSubset(str) ==
    LET parts == Split(str, <<>>)
    IN  /\ IsHmsField(str)
        /\ \A i, j \in DOMAIN parts :
              i < j => UnitRank(parts[i][Len(parts[i])]) < UnitRank(parts[j][Len(parts[j])])

\* a text that str::parse::<u64> takes: digits, a '+' before them or not,
\* the value at most u64::MAX
IsU64Text(str) ==
    LET digits == IF str # <<>> /\ str[1] = "+" THEN Tail(str) ELSE str
        n == ExactNumber(digits, <<0, 0, 0, 0, 0, 0>>)
    IN  /\ digits # <<>>
        /\ \A i \in DOMAIN digits : IsDigit(digits[i])
        /\ n[5] = 0 /\ n[6] = 0

\* a part with an invalid unit or a number that does not parse; the one
\* part of an empty field is such a part
IsBadPart(part) ==
    \/ part = <<>>
    \/ part[Len(part)] \notin {"h", "m", "s"}
    \/ ~IsU64Text(PopRest(part))

HasBadPart(str) == \E i \in DOMAIN Split(str, <<>>) : IsBadPart(Split(str, <<>>)[i])

\* the total of the field is one that Duration::seconds takes
TotalInRange(str) ==
    LET t == ExactSeconds(Split(str, <<>>))
    IN  t[5] = 0 /\ t[6] = 0 /\ ~UnsignedLess(MaxSeconds, SubSeq(t, 1, 4), 4)

TaList == ta_before \o <<ta_task>> \o ta_after

\* C24: get_absolute returns TaskParseError when both delay and time are
\* set and when neither is set, and a task list that holds such a task
\* fails validate_task_list
C24_ExactlyOneOfDelayAndTime ==
    ((ta_task.delay = None) = (ta_task.time = None)) =>
        /\ ta_abs.kind \in {"none", "TaskParseError"}
        /\ ta_valid.kind \in {"none", "TaskParseError"}

\* both calls were made on a task with delay and time set, among other tasks
C24_Witness ==
    /\ ta_task.delay # None /\ ta_task.time # None
    /\ Len(TaList) = 3
    /\ ta_abs.kind = "TaskParseError"
    /\ ta_valid.kind = "TaskParseError"

\* the instant a well-formed time field names
RunTime == CHOOSE t \in datetime_from_str(CHOOSE f \in ta_task.time : TRUE) : TRUE

\* C25: for a task with only the time field set, to a well-formed timestamp,
\* get_absolute returns TaskTimeError exactly when the time is before now or
\* more than 90 days after now, and returns that time otherwise
C25_TimeWithinNinetyDays ==
    (/\ ta_abs.kind # "none"
     /\ ta_task.delay = None /\ ta_task.time # None
     /\ datetime_from_str(CHOOSE f \in ta_task.time : TRUE) # None) =>
        IF RunTime < ta_now \/ RunTime > ta_now + 90 * 86400 * TicksPerSecond
        THEN ta_abs.kind = "TaskTimeError"
        ELSE ta_abs = AbsOk(RunTime)

\* a time exactly 90 days after now was returned as the first-fire instant
C25_Witness ==
    /\ ta_task.delay = None
    /\ ta_task.time = Some(<<190, 12, 0, 0>>)
    /\ ta_now = Noon
    /\ ta_abs = AbsOk(Noon + 90 * 86400 * TicksPerSecond)

\* task i launches its app in this step
Launch(i) == tk_fut'[i].attempts > tk_fut[i].attempts

\* every future of the list has returned
AllEnded == \A i \in 1..MaxTasks : tk_fut[i].pc \in {"none", "ended"}

\* C22 as stated: once the stop signal of a task list has been sent, every
\* task future of the list terminates and no task launches an app afterwards
C22_StopEndsAllNoLaunch ==
    /\ (tk_stop = "sent") ~> AllEnded
    /\ [][tk_stop = "sent" => \A i \in 1..MaxTasks : ~Launch(i)]_vars

\* C22: once the stop signal of a task list has been sent, every task future
\* of the list terminates, wherever it waits; a step in which a task still
\* launches its app is the last step of its future, and a future that has
\* returned does nothing more
C22_StopEndsAll ==
    /\ (tk_stop = "sent") ~> AllEnded
    /\ [][\A i \in 1..MaxTasks :
            /\ (tk_stop = "sent" /\ Launch(i)) => tk_fut'[i].pc = "ended"
            /\ tk_fut[i].pc = "ended" => tk_fut'[i] = tk_fut[i]]_vars

\* the signal was sent and both futures have returned, one dropped inside a
\* retry of its execution, one in the wait for its next period
C22_Witness ==
    /\ tk_stop = "sent"
    /\ AllEnded
    /\ \E i, j \in 1..MaxTasks :
          /\ tk_fut[i].attempts >= 2
          /\ tk_fut[j].periodic /\ tk_fut[j].fires = 1 /\ tk_fut[j].attempts = 0

\* what get_absolute gives for task i when the list is validated
AbsAtValidation(i) == get_absolute(tk_tasks[i], tk_now, TRUE).kind

InExecute(i) == tk_fut[i].pc \in {"status", "delay"}

RECURSIVE CountCode(_, _)
CountCode(codes, c) ==
    IF codes = <<>> THEN 0
    ELSE (IF Head(codes) = c THEN 1 ELSE 0) + CountCode(Tail(codes), c)

RECURSIVE ExitsOf(_, _, _)
ExitsOf(id, c, i) ==
    IF i > Len(tk_tasks) THEN 0
    ELSE (IF tk_tasks[i].id = Some(id) THEN CountCode(tk_fut[i].codes, c) ELSE 0)
         + ExitsOf(id, c, i + 1)

\* C30: with the telemetry service in place, an app-exit datapoint
\* (parameter = task id, value = exit code) is emitted if and only if the
\* subprocess exited with a non-success code
C30_DatapointIffNonSuccess ==
    (tk_pc = "started" /\ tk_config) =>
        \A id \in 1..5, c \in ExitCodes :
            CopiesIn(DataPoint(id, c), tk_sink) = IF c = 0 THEN 0 ELSE ExitsOf(id, c, 1)

\* C31: when the upload, download or cleanup operation returns an error the
\* client process exits with a non-zero status; it exits with status 0 only
\* when the operation succeeded
C31_ExitStatusTellsResult ==
    (cl_pc = "exited" /\ cl_result # "none") => (cl_exit = 0 <=> cl_result = "Ok")

\* C32: a Udp-class frame is forwarded by the read loop itself, whatever the
\* handler counter reads, the counter at max_num_handlers included: the
\* dispatch step neither changes the counter nor spawns a handler (so no
\* response is read and nothing is written to the gateway), it records
\* exactly one of downlink (the datagram was sent to the frame's destination)
\* or downlink-failed (nothing was sent), and the loop reads again
C32_UdpForwardedInline ==
    /\ []((rd_pc = "dispatch" /\ packet.class = "Udp")
            => (ENABLED DispatchUdp(TRUE) /\ ENABLED DispatchUdp(FALSE)))
    /\ [][(rd_pc = "dispatch" /\ packet.class = "Udp" /\ rd_pc' # rd_pc)
          => (/\ num_handlers' = num_handlers
              /\ handlers' = handlers
              /\ rd_pc' = "read"
              /\ \/ /\ telem' = [telem EXCEPT !.down = @ + 1]
                    /\ forwarded' = Append(forwarded, [dest |-> packet.dest,
                                                       payload |-> packet.payload])
                 \/ /\ telem' = [telem EXCEPT !.down_failed = @ + 1]
                    /\ forwarded' = forwarded)]_vars

\* a Udp frame is at the dispatch while an admitted handler holds the only
\* slot of the budget
C32_Witness ==
    /\ rd_pc = "dispatch"
    /\ packet.class = "Udp"
    /\ num_handlers = MaxNumHandlers
    /\ \E h \in DOMAIN handlers : handlers[h].st \in {"start", "wait"}

\* the greatest chunk index that has a file, -1 in an empty directory
VfLast == IF vf_present = {} THEN -1 ELSE CHOOSE m \in vf_present : \A o \in vf_present : o <= m

\* C33: validate_file reports complete = true if and only if a chunk file
\* exists for every index in [0, num_chunks), whatever numeric entries the
\* hash directory holds; when the last present index is below num_chunks - 1
\* the returned ranges end with the trailing range [last + 1, num_chunks)
C33_CompleteIffAllPresent ==
    vf_pc = "done" =>
        /\ vf_result.complete <=> (0..(vf_num - 1)) \subseteq vf_present
        /\ VfLast < vf_num - 1 =>
              /\ Len(vf_result.ranges) >= 2
              /\ vf_result.ranges[Len(vf_result.ranges) - 1] = VfLast + 1
              /\ vf_result.ranges[Len(vf_result.ranges)] = vf_num

\* the metadata of the hash load_chunk was called on
C34Meta == load_meta(storage, result.hash).meta

\* the bytes of the source file from offset chunk_size * i on, chunk_size of
\* them at most
C34Slice(chunk_size, i) ==
    LET left == Len(source) - chunk_size * i
        n == IF left < 0 THEN 0 ELSE IF left > chunk_size THEN chunk_size ELSE left
    IN  [b \in 1..n |-> source[chunk_size * i + b]]

C35Chunks(st, hash) == IF hash \in DOMAIN st THEN st[hash].chunks ELSE <<>>

\* C35: validate_file called with a num_chunks value replaces the hash's
\* metadata by (num_chunks, no chunk_size, no file_path); called without
\* num_chunks it changes nothing in storage; in both cases no chunk file is
\* created, changed or removed
C35_ValidateFileWrites ==
    [][result'.op = "validate_file" =>
         \A num \in 0..NumChunks(MaxFileLen, ChunkSize) :
            LET hash == result'.hash
            IN  /\ StValidateFile(hash, None) => storage' = storage
                /\ StValidateFile(hash, Some(num)) =>
                      /\ DOMAIN storage' = DOMAIN storage \cup {hash}
                      /\ storage'[hash].has_meta
                      /\ storage'[hash].meta = to_vec(Meta(num, None, None))
                      /\ \A h \in DOMAIN storage' :
                            C35Chunks(storage', h) = C35Chunks(storage, h)
                      /\ \A h \in DOMAIN storage \ {hash} : storage'[h] = storage[h]]_vars

\* validate_file(hash, Some(n)) was called on the directory of an
\* initialised file that holds a chunk: the metadata no longer names the
\* source file, the chunk is still there
C35_Witness ==
    /\ result.op = "validate_file"
    /\ result.kind = "Ok"
    /\ result.hash \in DOMAIN storage
    /\ storage[result.hash].has_meta
    /\ storage[result.hash].meta[3].val = None
    /\ storage[result.hash].chunks # <<>>
    /\ target.exists

\* n = ceil(file_size / chunk_size) for chunk_size > 0:
\* file_size <= n * chunk_size < file_size + chunk_size
IsCeil(n, file_size, chunk_size) ==
    LET p == MulAddFrom(n \o <<0, 0>>, chunk_size, 0, 1)
        hi == AddFrom(file_size, <<chunk_size, 0, 0, 0>>, 0, 1)
    IN  /\ ~UnsignedLess(p, file_size \o <<0>>, Len(p))
        /\ UnsignedLess(p, hi, Len(p))

\* C36 as stated: initialize_file returns num_chunks = ceil(size /
\* transfer_chunk_size) for every file size and every positive chunk size.
C36_NumChunksIsCeil ==
    nc_pc # "call" /\ nc_in.transfer_chunk_size > 0
        => nc_pc = "returned" /\ IsCeil(nc_ret, nc_in.file_size, nc_in.transfer_chunk_size)

\* the chunk count of the file fits u32
C36Fits(file_size, chunk_size) ==
    LET d == DivFrom(file_size, chunk_size, Len(file_size), 0)
    IN  d.q[3] = 0 /\ d.q[4] = 0 /\ ~(d.q[1] = LimbBase - 1 /\ d.q[2] = LimbBase - 1 /\ d.r > 0)

\* C36 within u32: when ceil(size / transfer_chunk_size) is at most u32::MAX,
\* initialize_file returns it.
C36_CeilWithinU32 ==
    nc_pc # "call" /\ nc_in.transfer_chunk_size > 0
                  /\ C36Fits(nc_in.file_size, nc_in.transfer_chunk_size)
        => nc_pc = "returned" /\ IsCeil(nc_ret, nc_in.file_size, nc_in.transfer_chunk_size)

\* C36, the examples: 0 chunks for an empty file, 3 chunks for 10,000 bytes
\* with a chunk size of 4096
C36_Examples ==
    nc_pc # "call" /\ nc_in.transfer_chunk_size = 4096
        => /\ nc_in.file_size = <<0, 0, 0, 0>> => nc_pc = "returned" /\ nc_ret = <<0, 0>>
           /\ nc_in.file_size = <<10000, 0, 0, 0>> => nc_pc = "returned" /\ nc_ret = <<3, 0>>

\* a 4 GiB file cut into chunks of one byte has been counted
C36_TruncatedCount ==
    /\ nc_pc = "returned"
    /\ nc_in.file_size = <<0, 0, 1, 0>>
    /\ nc_in.transfer_chunk_size = 1
    /\ nc_ret = <<0, 0>>

\* start() was entered with a mode other than safe active, failed over and
\* has returned
C39FailedOver ==
    /\ sc_pc = "returned"
    /\ sc_entry \notin {SAFE_MODE, NoMode}
    /\ sc_active = SAFE_MODE

\* the task lists whose tasks were spawned and whose handle is still in the
\* map: their stop channel is open and nothing was sent on it
C39Running ==
    {l \in sc_started : Filename(l[2]) \in DOMAIN sc_map /\ sc_map[Filename(l[2])] = l[1]}

\* C39 as stated: after start() has failed over from a non-safe mode to
\* safe, the handle map holds handles of safe's task lists only and no task
\* list of the failed mode is still running, whatever had been started
\* before the failing list was reached.
C39_FailedModeCleared ==
    C39FailedOver
        => /\ \A f \in DOMAIN sc_map : sc_map[f] = SAFE_MODE
           /\ \A l \in C39Running : l[1] = SAFE_MODE

\* C39 where it holds: when no list of the failed mode had been started
\* under a name that safe does not use, nothing of the failed mode is left
C39_ClearedWhenNamesReused ==
    (C39FailedOver /\ \A l \in sc_started :
                        l[1] = SAFE_MODE \/ l[2] \in DOMAIN sc_modes[SAFE_MODE])
        => /\ \A f \in DOMAIN sc_map : sc_map[f] = SAFE_MODE
           /\ \A l \in C39Running : l[1] = SAFE_MODE

\* the handles whose stop channel is open: the lists whose tasks run
C37Running(handles) == {h \in DOMAIN handles : handles[h].stop = "open"}

\* C37: check_stop_task_list on the active mode takes the handle of the
\* named list out of the map and stops the tasks of that handle only, every
\* other entry of the map and every other list's tasks stay as they are;
\* on a mode that is not active, check_start_task_list and
\* check_stop_task_list return Ok and change neither the map nor any task
C37_SingleListOnly ==
    [][/\ (tl_ret'.op = "check_stop_task_list" /\ tl_ret'.active)
             => /\ tl_ret'.kind = "Ok"
                /\ DOMAIN tl_map' = DOMAIN tl_map \ {tl_ret'.name}
                /\ \A n \in DOMAIN tl_map' : tl_map'[n] = tl_map[n]
                /\ C37Running(tl_handles')
                      = C37Running(tl_handles)
                          \ (IF tl_ret'.name \in DOMAIN tl_map THEN {tl_map[tl_ret'.name]}
                             ELSE {})
                /\ Len(tl_handles') = Len(tl_handles)
       /\ (tl_ret'.op \in {"check_start_task_list", "check_stop_task_list"}
             /\ ~tl_ret'.active)
             => /\ tl_ret'.kind = "Ok"
                /\ tl_map' = tl_map
                /\ tl_handles' = tl_handles]_vars

\* check_stop_task_list has stopped one of two running lists of
\* the active mode: the other one is in the map and runs
C37_Witness ==
    /\ tl_ret.op = "check_stop_task_list"
    /\ tl_ret.active
    /\ tl_ret.name = <<"a">>
    /\ DOMAIN tl_map = {<<"b">>}
    /\ Len(tl_handles) = 2
    /\ tl_handles[1] = [name |-> <<"a">>, stop |-> "sent"]
    /\ tl_handles[2] = [name |-> <<"b">>, stop |-> "open"]

\* the receiver is between packet_tx.send and fetch_add, or the downlink
\* loop between packet_rx.recv and fetch_update
C38MidStep == rx_pc = "add" \/ dl_pc = "dec"

\* C38 as stated: whenever neither worker is in the middle of an enqueue or
\* a dequeue, the credit counter is the number of packets that are on the
\* packet channel; it is 0 when the channel is empty.
C38_CounterIsQueueLength == ~C38MidStep => num_packets = Len(packet_ch)

\* C38, what holds in every state: counting the enqueue under way the
\* counter is at least the packets on the channel, and it is at most the
\* datagrams received
C38_CounterBounds ==
    /\ num_packets + (IF rx_pc = "add" THEN 1 ELSE 0) >= Len(packet_ch)
    /\ num_packets <= n_recv

\* C40 as stated: when import_task_list or import_raw_task_list returns an
\* error, the mode directory is as it was before the call.
C40_FailedImportChangesNothing ==
    [][(im_pc' = "returned" /\ im_ret' # "Ok") => im_dir' = im_dir]_vars

\* C40 where it holds: the directory is as before when the mode is not
\* found, when the destination could not be opened, and when a list that
\* did not exist before fails validation
C40_UnchangedWhenUntouchedOrNew ==
    [][(/\ im_pc' = "returned"
        /\ im_ret' # "Ok"
        /\ \/ im_ret' = "Mode not found"
           \/ im_in'.fault \in {"open", "create"}
           \/ im_in'.fault = "none" /\ im_dir[im_in'.name] = "absent")
          => im_dir' = im_dir]_vars
====
